---- MODULE Spec2Model ----
(***************************************************************************)
(* Model of the agent-demo chat backend.                                   *)
(*                                                                         *)
(* Two server programs are modelled, selected by `variant`:                *)
(*   "server"   - src/server/index.ts (local tools, MCP tools, skills)     *)
(*   "part_000" - src/unnamed/part_000 (local tools and MCP tools only)    *)
(* Node runs each synchronous stretch of code to completion, so one action *)
(* is one stretch of code between two awaits.                              *)
(*                                                                         *)
(* Strings whose characters the code inspects (message contents, model     *)
(* text) are sequences of one-character strings; a CJK character is        *)
(* written by its code point, e.g. "u8bf7".                                *)
(***************************************************************************)
EXTENDS Integers, Sequences, FiniteSets, TLC

VARIABLES
    variant,     \* which server program runs
    booted,      \* module evaluation finished, app.listen called
    mcpConfig,   \* const mcpConfig of initializeMCPTools (value of readMCPConfig())
    init,        \* initializeMCPTools: its position, loop index and local mcpTools
    mcpTools,    \* module-level `let mcpTools`
    skillTools,  \* module-level `const skillTools`
    req,         \* the requests being handled by router.post('/api/chat')
    configFiles, \* the two mcp.json files (project, global) as start-up found them
    disk,        \* the file system the file tools act on
    run,         \* one execution of a tool's execute function
    interp,      \* one application of the configuration interpolation
    skillsDir,   \* the skills directory as start-up found it
    tempFiles,   \* the temporary files of executeScript and their clean-up timers
    applied,     \* one application of a loader function to an input
    client       \* the chat client (App of src/unnamed/part_001)

vars == <<variant, booted, mcpConfig, init, mcpTools, skillTools, req,
          configFiles, disk, run, interp, skillsDir, tempFiles, applied, client>>

-----------------------------------------------------------------------------
(* Bounds of the model *)

MaxProviders == 2    \* entries of mcpServers in a sample configuration
MaxCalls == 1        \* tool calls the model emits in one step

(* Program constants *)

MaxSteps == 10       \* stopWhen: stepCountIs(10)

Variants == {"server", "part_000"}
\* Request slots. A handler reads the registry once and writes nothing but
\* its own locals and ctx, so one slot, taken again by each following request,
\* shows the handler at every moment of the server's life.
Requests == {"r1"}

-----------------------------------------------------------------------------
(* Character strings *)

UpperChars == <<"A","B","C","D","E","F","G","H","I","J","K","L","M",
                "N","O","P","Q","R","S","T","U","V","W","X","Y","Z">>
LowerChars == <<"a","b","c","d","e","f","g","h","i","j","k","l","m",
                "n","o","p","q","r","s","t","u","v","w","x","y","z">>

LowerChar(c) ==
    IF \E i \in 1..26 : UpperChars[i] = c
    THEN LowerChars[CHOOSE i \in 1..26 : UpperChars[i] = c]
    ELSE c

\* String.prototype.toLowerCase
ToLowerCase(s) == [i \in 1..Len(s) |-> LowerChar(s[i])]

WhiteSpace == {" ", "\t", "\n"}

RECURSIVE TrimStart(_)
TrimStart(s) ==
    IF s # <<>> /\ Head(s) \in WhiteSpace THEN TrimStart(Tail(s)) ELSE s

RECURSIVE TrimEnd(_)
TrimEnd(s) ==
    IF s # <<>> /\ s[Len(s)] \in WhiteSpace
    THEN TrimEnd(SubSeq(s, 1, Len(s) - 1))
    ELSE s

\* String.prototype.trim
Trim(s) == TrimEnd(TrimStart(s))

\* an unanchored regular expression that is one literal: the literal occurs in s
Contains(s, lit) ==
    \E i \in 1..(Len(s) - Len(lit) + 1) : SubSeq(s, i, i + Len(lit) - 1) = lit

-----------------------------------------------------------------------------
(* Tool registry *)

ToolDef(source, owner, tool) == [source |-> source, owner |-> owner, tool |-> tool]

NoTools == [n \in {} |-> ToolDef("", "", "")]

BaseToolNames == {"calculate", "getCurrentTime", "readFile", "writeFile", "deleteFile"}

baseTools == [n \in BaseToolNames |-> ToolDef("base", "", n)]

\* a merge in which the earlier source keeps a shared key (a faulty spread)
SpreadKeepFirst(a, b) ==
    [n \in DOMAIN a \cup DOMAIN b |-> IF n \in DOMAIN a THEN a[n] ELSE b[n]]

\* object spread { ...a, ...b }: the keys of both, b's value on a shared key
Spread(a, b) ==
    [n \in DOMAIN a \cup DOMAIN b |-> IF n \in DOMAIN b THEN b[n] ELSE a[n]]

GetToolsOf(v, mcp, skill) ==
    IF v = "server"
    THEN Spread(Spread(baseTools, mcp), skill)
    ELSE Spread(baseTools, mcp)

getTools == GetToolsOf(variant, mcpTools, skillTools)

-----------------------------------------------------------------------------
(* Provider (MCP) configuration *)

Range(f) == {f[i] : i \in DOMAIN f}

\* one entry of mcpServers: type is "" when the entry has no `type`,
\* url says whether the entry has a `url`
Provider(name, type, url) == [name |-> name, type |-> type, url |-> url]

ProviderPool ==
    { Provider("git", "stdio", FALSE),
      Provider("skill", "", FALSE),
      Provider("web", "sse", TRUE),
      Provider("api", "", TRUE) }

\* the catalog a provider declares when its listing succeeds
Catalog(name) ==
    CASE name = "git" -> <<"status", "add">>
      [] name = "skill" -> <<"deploy">>
      [] OTHER -> <<>>

\* what client.listTools() can return for a provider: its catalog, or no tools
ListResults(name) == {Catalog(name), <<>>}

ServerLists ==
    UNION { { s \in [1..n -> ProviderPool] :
                \A i, j \in 1..n : i # j => s[i].name # s[j].name } :
            n \in 0..MaxProviders }

\* values JSON.parse can return for a configuration file
NullConfig == [null |-> TRUE, hasServers |-> FALSE, servers |-> <<>>]
NoServersConfig == [null |-> FALSE, hasServers |-> FALSE, servers |-> <<>>]
Configs ==
    {NullConfig, NoServersConfig}
        \cup { [null |-> FALSE, hasServers |-> TRUE, servers |-> s] : s \in ServerLists }

\* a configuration file: absent, present but not JSON, or present with JSON
AbsentFile == [exists |-> FALSE, valid |-> FALSE, json |-> NullConfig]
InvalidFile == [exists |-> TRUE, valid |-> FALSE, json |-> NullConfig]
ConfigFiles ==
    {AbsentFile, InvalidFile}
        \cup { [exists |-> TRUE, valid |-> TRUE, json |-> c] : c \in Configs }

ConfigOf(servers) == [null |-> FALSE, hasServers |-> TRUE, servers |-> servers]
FileOf(config) == [exists |-> TRUE, valid |-> TRUE, json |-> config]

\* the project file and the global file
FilePair(project, global) == [project |-> project, global |-> global]

\* sample configuration files: none; a project file that does not parse
\* beside a global file with one local provider; a project file with a remote
\* provider followed by two local ones beside that global file
SampleFiles ==
    { FilePair(AbsentFile, AbsentFile),
      FilePair(InvalidFile, FileOf(ConfigOf(<<Provider("git", "stdio", FALSE)>>))),
      FilePair(FileOf(ConfigOf(<<Provider("web", "sse", TRUE), Provider("skill", "", FALSE),
                                 Provider("git", "stdio", FALSE)>>)),
               FileOf(ConfigOf(<<Provider("git", "stdio", FALSE)>>))) }

\* a reader that tries the global file first (a faulty order)
readMCPConfigGlobalFirst(project, global) ==
    IF global.exists /\ global.valid THEN global.json
    ELSE IF project.exists /\ project.valid THEN project.json
    ELSE NullConfig

\* readMCPConfig: the project file if it exists and parses, else the global
\* file if it exists and parses, else null
readMCPConfig(project, global) ==
    IF project.exists /\ project.valid THEN project.json
    ELSE IF global.exists /\ global.valid THEN global.json
    ELSE NullConfig

\* interpolatedConfig.type || (interpolatedConfig.url ? 'sse' : 'stdio')
TransportType(config) ==
    IF config.type # "" THEN config.type
    ELSE IF config.url THEN "sse" ELSE "stdio"

\* registry entries named by the tool alone (a faulty key)
ProviderToolsUnprefixed(serverName, tools) ==
    [n \in Range(tools) |-> ToolDef("mcp", serverName, n)]

\* the registry entries of one provider: `${serverName}_${mcpTool.name}`
ProviderTools(serverName, tools) ==
    [n \in {serverName \o "_" \o t : t \in Range(tools)} |->
        ToolDef("mcp", serverName,
                CHOOSE t \in Range(tools) : serverName \o "_" \o t = n)]

\* one processed provider: how its turn in the loop ended, and what it listed
Outcome(name, result, tools) == [name |-> name, result |-> result, tools |-> tools]

\* a loop that a remote provider ends (a faulty skip)
RunLoopEndedByRemote(servers, i, acc, out) ==
    IF i > Len(servers) \/ TransportType(servers[i]) # "stdio"
    THEN [pc |-> "done", i |-> i, acc |-> acc, out |-> out]
    ELSE [pc |-> "connect", i |-> i, acc |-> acc, out |-> out]

\* the loop of initializeMCPTools from entry i up to its next await
\* (client.connect of a stdio provider) or its end; remote providers are
\* skipped on the way
RECURSIVE RunLoop(_, _, _, _)
RunLoop(servers, i, acc, out) ==
    IF i > Len(servers)
    THEN [pc |-> "done", i |-> i, acc |-> acc, out |-> out]
    ELSE IF TransportType(servers[i]) = "stdio"
    THEN [pc |-> "connect", i |-> i, acc |-> acc, out |-> out]
    ELSE RunLoop(servers, i + 1, acc,
                 Append(out, Outcome(servers[i].name, "skipped", <<>>)))

\* initializeMCPTools() from its call to its first await or its return
StartInit(config) ==
    IF config.null \/ ~config.hasServers
    THEN [pc |-> "done", i |-> 1, acc |-> NoTools, out |-> <<>>]
    ELSE RunLoop(config.servers, 1, NoTools, <<>>)

\* a loader that assigns the tools of the first provider that listed some
\* and never assigns again (a faulty, partial publication)
PublishedFirstOnly(current, ini) == IF current = NoTools THEN ini.acc ELSE current

\* a loader that assigns the provider tools as they come (a faulty publication)
PublishedEarly(current, ini) == ini.acc

\* .then(tools => { mcpTools = tools }): runs as a microtask as soon as
\* initializeMCPTools returns, before any other event is handled
Published(current, ini) == IF ini.pc = "done" THEN ini.acc ELSE current

-----------------------------------------------------------------------------
(* Skills *)

\* a subdirectory of the skills directory; file says whether its SKILL.md
\* is there and can be read
SkillDir(dir, file) == [dir |-> dir, file |-> file]

SkillDirPool == {SkillDir("deploy", "ok"), SkillDir("notes", "missing"),
                 SkillDir("draft", "unreadable")}

SkillsDirStates ==
    {[exists |-> FALSE, dirs |-> {}]}
        \cup { [exists |-> TRUE, dirs |-> d] : d \in SUBSET SkillDirPool }

SampleSkillsDirs ==
    { [exists |-> FALSE, dirs |-> {}],
      [exists |-> TRUE, dirs |-> SkillDirPool] }

\* a loader whose only try block is the outer one: one descriptor that
\* cannot be read loses every skill (a faulty scan)
loadSkillsAllOrNothing(found) ==
    IF ~found.exists \/ \E x \in found.dirs : x.file = "unreadable" THEN {}
    ELSE { d.dir : d \in { x \in found.dirs : x.file = "ok" } }

\* loadSkills: the keys `skill_${skillDir}` of the descriptors that loaded
loadSkills(found) ==
    IF ~found.exists THEN {}
    ELSE { d.dir : d \in { x \in found.dirs : x.file = "ok" } }

\* skillTools[skillKey] = createToolFromSkill(skillInfo)
SkillToolsOf(loaded) ==
    [n \in {"skill_" \o d : d \in loaded} |->
        ToolDef("skill", "", CHOOSE d \in loaded : "skill_" \o d = n)]

-----------------------------------------------------------------------------
(* Start-up *)

IdleInit == [pc |-> "idle", i |-> 1, acc |-> NoTools, out |-> <<>>]

\* evaluation of the module: initializeMCPTools() is called and runs to its
\* first await, the skills are loaded (src/server/index.ts only), the routes
\* are installed and app.listen is called
BootFrom(files, skillsDirs) ==
    /\ ~booted
    /\ \E pair \in files, found \in skillsDirs :
          LET config == readMCPConfig(pair.project, pair.global)
              ini == StartInit(config)
          IN /\ configFiles' = pair
             /\ skillsDir' = found
             /\ mcpConfig' = config
             /\ init' = ini
             /\ mcpTools' = Published(NoTools, ini)
             /\ skillTools' = IF variant = "server"
                              THEN SkillToolsOf(loadSkills(found))
                              ELSE NoTools
    /\ booted' = TRUE
    /\ UNCHANGED <<variant, req, disk, run, interp, tempFiles, applied, client>>

\* start-up on every configuration within the bounds
ConfigFilePairs == {FilePair(p, g) : p \in ConfigFiles, g \in ConfigFiles}

BootAny == BootFrom(ConfigFilePairs, SkillsDirStates)

\* start-up on the sample configurations
Boot == BootFrom(SampleFiles, SampleSkillsDirs)

\* await client.connect(transport) returns or throws
ConnectReturns ==
    /\ init.pc = "connect"
    /\ \E ok \in BOOLEAN :
          LET server == mcpConfig.servers[init.i]
              ini == IF ok
                     THEN [init EXCEPT !.pc = "list"]
                     ELSE RunLoop(mcpConfig.servers, init.i + 1, init.acc,
                                  Append(init.out, Outcome(server.name, "connectFailed", <<>>)))
          IN /\ init' = ini
             /\ mcpTools' = Published(mcpTools, ini)
    /\ UNCHANGED <<variant, booted, mcpConfig, skillTools, req, configFiles, disk,
                 run, interp, skillsDir, tempFiles, applied, client>>

\* await client.listTools() returns a catalog or throws
ListReturns ==
    /\ init.pc = "list"
    /\ LET server == mcpConfig.servers[init.i]
       IN \/ \E tools \in ListResults(server.name) :
                LET ini == RunLoop(mcpConfig.servers, init.i + 1,
                                   Spread(init.acc, ProviderTools(server.name, tools)),
                                   Append(init.out, Outcome(server.name, "ok", tools)))
                IN /\ init' = ini
                   /\ mcpTools' = Published(mcpTools, ini)
          \/ LET ini == RunLoop(mcpConfig.servers, init.i + 1, init.acc,
                                Append(init.out, Outcome(server.name, "listFailed", <<>>)))
             IN /\ init' = ini
                /\ mcpTools' = Published(mcpTools, ini)
    /\ UNCHANGED <<variant, booted, mcpConfig, skillTools, req, configFiles, disk,
                 run, interp, skillsDir, tempFiles, applied, client>>

-----------------------------------------------------------------------------
(* Request bodies *)

\* content of a message: a string, or an array of parts holding one text part
Str(chars) == [kind |-> "string", chars |-> chars]
Parts(chars) == [kind |-> "parts", chars |-> chars]

Msg(role, content) == [role |-> role, content |-> content]

\* the `messages` field of the JSON body, by JavaScript type
Undefined == [kind |-> "undefined", items |-> <<>>]
NullValue == [kind |-> "null", items |-> <<>>]
StringValue == [kind |-> "string", items |-> <<>>]
ObjectValue == [kind |-> "object", items |-> <<>>]
ArrayValue(items) == [kind |-> "array", items |-> items]

SampleArrays ==
    { <<>>,
      <<Msg("user", Str(<<"h", "i">>))>>,
      <<Msg("user", Str(<<"G", "i", "t">>))>>,
      <<Msg("user", Parts(<<"g", "i", "t">>))>>,
      <<Msg("user", Str(<<"g", "i", "t">>)), Msg("assistant", Str(<<"o", "k">>))>> }

SampleBodies ==
    {Undefined, NullValue, StringValue, ObjectValue}
        \cup {ArrayValue(a) : a \in SampleArrays}

\* a validation that only tests !messages (a faulty check)
InvalidMessagesFalsyOnly(messages) == messages.kind \in {"undefined", "null"}

\* !messages || !Array.isArray(messages)
\* (StringValue stands for a non-empty string)
InvalidMessages(messages) ==
    \/ messages.kind \in {"undefined", "null"}
    \/ messages.kind # "array"

\* the alternatives of the requiresAction pattern
Keywords(v) ==
    IF v = "server"
    THEN { <<"u63d0", "u4ea4">>, <<"c", "o", "m", "m", "i", "t">>, <<"p", "u", "s", "h">>,
           <<"u6267", "u884c">>, <<"u505a">>, <<"u5b8c", "u6210">>, <<"u5e2e", "u6211">>,
           <<"u8bf7">>, <<"g", "i", "t">>, <<"a", "d", "d">>,
           <<"s", "t", "a", "t", "u", "s">> }
    ELSE { <<"u00ca", "u00e8", "u00ea", "u2030", "u222b", "u00a7">>,
           <<"c", "o", "m", "m", "i", "t">>, <<"p", "u", "s", "h">>,
           <<"u00ca", "u00e2", "u00df", "u00cb", "u00b0", "u00e5">>,
           <<"u00c2", "u00c5", "u00f6">>,
           <<"u00c2", "u00c6", "u00e5", "u00ca", "u00e0", "u00ea">>,
           <<"u00c2", "u220f", "u00c6", "u00ca", "u00e0", "u00eb">>,
           <<"u00cb", "u00d8", "u2211">>, <<"g", "i", "t">>, <<"a", "d", "d">>,
           <<"s", "t", "a", "t", "u", "s">> }

\* /(...|...)/.test(text)
MatchesPattern(v, text) == \E kw \in Keywords(v) : Contains(text, kw)

\* lastMessage = messages[messages.length - 1];
\* userMessage = typeof lastMessage?.content === 'string' ? content.toLowerCase() : ''
userMessageOf(items) ==
    IF Len(items) = 0 THEN <<>>
    ELSE LET lastMessage == items[Len(items)]
         IN IF lastMessage.content.kind = "string"
            THEN ToLowerCase(lastMessage.content.chars)
            ELSE <<>>

requiresAction(v, items) == MatchesPattern(v, userMessageOf(items))

\* toolChoice: requiresAction ? 'required' : 'auto'
ToolChoice(v, items) == IF requiresAction(v, items) THEN "required" ELSE "auto"

-----------------------------------------------------------------------------
(* The response of the chat handler *)

RECURSIVE DecimalChars(_)
DecimalChars(n) ==
    IF n < 10
    THEN <<<<"0", "1", "2", "3", "4", "5", "6", "7", "8", "9">>[n + 1]>>
    ELSE DecimalChars(n \div 10) \o DecimalChars(n % 10)

\* the template literal of the default feedback message
Notice(n) ==
    <<"u2705", " ", "u5df2", "u5b8c", "u6210", " ">> \o DecimalChars(n)
        \o <<" ", "u4e2a", "u5de5", "u5177", "u8c03", "u7528", "u3002",
             "u4efb", "u52a1", "u6267", "u884c", "u5b8c", "u6210", "u3002">>

\* ctx.body of a completed generation. text and toolCalls (here the number of
\* entries of the array) are the result's fields, which the AI SDK takes from
\* the final step; messages is response.messages
ChatBody(v, text, toolCalls, messages) ==
    LET hasToolCalls == toolCalls > 0
        hasTextResponse == text # <<>> /\ Len(Trim(text)) > 0
        finalText == IF hasToolCalls /\ ~hasTextResponse THEN Notice(toolCalls) ELSE text
    IN IF v = "server"
       THEN [messages |-> messages,
             text |-> IF finalText # <<>> THEN finalText ELSE text,
             toolCalls |-> toolCalls,
             hasToolCalls |-> hasToolCalls]
       ELSE [messages |-> messages, text |-> text]

\* { error: error.message || 'Internal Server Error' }
ErrorBody(message) ==
    [error |-> IF message # "" THEN message ELSE "Internal Server Error"]

ValidationBody == [error |-> "Messages array is required"]

\* stepCountIs(10) with a ceiling that is one too high (a faulty stop condition)
StepCountIsOneMore(step) == step >= MaxSteps + 1

\* stopWhen: stepCountIs(10)
StepCountIs(step) == step >= MaxSteps

-----------------------------------------------------------------------------
(* One request *)

NoBody == [none |-> TRUE]

IdleReq ==
    [pc |-> "idle", body |-> Undefined, tools |-> NoTools, toolChoice |-> "",
     step |-> 0, used |-> FALSE, calls |-> 0, text |-> <<>>, trace |-> <<>>,
     status |-> 0, resp |-> NoBody]

\* what response.messages records of a step
AssistantMsg(step) == [role |-> "assistant", step |-> step]
ToolMsg(step) == [role |-> "tool", step |-> step]

\* the model's text in a final step: none, white space, an answer
SampleTexts == {<<>>, <<" ">>, <<"4">>}

\* the model's text in a step that calls tools: none, or some
SampleStepTexts == {<<>>, <<"o", "k">>}

ErrorMessages == {"", "Invalid API key"}

\* the handler after `await generateText(...)` has returned
Respond200(q) ==
    [q EXCEPT !.pc = "done", !.status = 200,
              !.resp = ChatBody(variant, q.text, q.calls, q.trace)]

\* a handler that keeps what the slot's previous exchange left (a faulty,
\* session-keeping handler)
ReceiveKeepingSession(r) ==
    /\ booted
    /\ req[r].pc \in {"idle", "done"}
    /\ \E messages \in SampleBodies :
          req' = [req EXCEPT ![r] =
                    IF InvalidMessages(messages)
                    THEN [IdleReq EXCEPT !.pc = "done", !.body = messages,
                                         !.status = 400, !.resp = ValidationBody]
                    ELSE [@ EXCEPT !.pc = "model", !.body = messages,
                                   !.tools = getTools,
                                   !.toolChoice = ToolChoice(variant, messages.items),
                                   !.step = 1, !.status = 0, !.resp = NoBody]]
    /\ UNCHANGED <<variant, booted, mcpConfig, init, mcpTools, skillTools,
                 configFiles, disk, run, interp, skillsDir, tempFiles, applied,
                 client>>

\* the handler from its start to `await generateText(...)`, or to the 400
Receive(r) ==
    /\ booted
    /\ req[r].pc \in {"idle", "done"}
    /\ \E messages \in SampleBodies :
          req' = [req EXCEPT ![r] =
                    IF InvalidMessages(messages)
                    THEN [IdleReq EXCEPT !.pc = "done", !.body = messages,
                                         !.status = 400, !.resp = ValidationBody]
                    ELSE [IdleReq EXCEPT !.pc = "model", !.body = messages,
                                         !.tools = getTools,
                                         !.toolChoice = ToolChoice(variant, messages.items),
                                         !.step = 1]]
    /\ UNCHANGED <<variant, booted, mcpConfig, init, mcpTools, skillTools,
                 configFiles, disk, run, interp, skillsDir, tempFiles, applied,
                 client>>

\* the model answers a step with tool calls; their execution starts
ModelCallsTools(r) ==
    /\ req[r].pc = "model"
    /\ \E k \in 1..MaxCalls, text \in SampleStepTexts :
          req' = [req EXCEPT ![r] =
                    [@ EXCEPT !.pc = "tools", !.used = TRUE, !.calls = k, !.text = text,
                              !.trace = Append(@, AssistantMsg(req[r].step))]]
    /\ UNCHANGED <<variant, booted, mcpConfig, init, mcpTools, skillTools,
                 configFiles, disk, run, interp, skillsDir, tempFiles, applied,
                 client>>

\* a loop that asks the model again without recording the tool results (a
\* faulty cycle)
ToolsReturnUnrecorded(r) ==
    /\ req[r].pc = "tools"
    /\ req' = [req EXCEPT ![r] =
                 IF StepCountIs(req[r].step)
                 THEN Respond200(req[r])
                 ELSE [req[r] EXCEPT !.pc = "model", !.step = @ + 1]]
    /\ UNCHANGED <<variant, booted, mcpConfig, init, mcpTools, skillTools,
                 configFiles, disk, run, interp, skillsDir, tempFiles, applied,
                 client>>

\* the tool executions of a step have returned: the results are appended, and
\* the loop stops when the step ceiling is reached, else asks the model again
ToolsReturn(r) ==
    /\ req[r].pc = "tools"
    /\ LET q == [req[r] EXCEPT !.trace = Append(@, ToolMsg(req[r].step))]
       IN req' = [req EXCEPT ![r] =
                    IF StepCountIs(q.step)
                    THEN Respond200(q)
                    ELSE [q EXCEPT !.pc = "model", !.step = @ + 1]]
    /\ UNCHANGED <<variant, booted, mcpConfig, init, mcpTools, skillTools,
                 configFiles, disk, run, interp, skillsDir, tempFiles, applied,
                 client>>

\* a generation that applies toolChoice to its first step alone (a faulty
\* forcing)
ModelAnswersAfterFirstStep(r) ==
    /\ req[r].pc = "model"
    /\ req[r].toolChoice = "auto" \/ req[r].step > 1
    /\ \E text \in SampleTexts :
          req' = [req EXCEPT ![r] =
                    Respond200([@ EXCEPT !.calls = 0, !.text = text,
                                         !.trace = Append(@, AssistantMsg(req[r].step))])]
    /\ UNCHANGED <<variant, booted, mcpConfig, init, mcpTools, skillTools,
                 configFiles, disk, run, interp, skillsDir, tempFiles, applied,
                 client>>

\* the model answers a step without tool calls, which ends the generation;
\* toolChoice 'required' rules such a step out
ModelAnswers(r) ==
    /\ req[r].pc = "model"
    /\ req[r].toolChoice = "auto"
    /\ \E text \in SampleTexts :
          req' = [req EXCEPT ![r] =
                    Respond200([@ EXCEPT !.calls = 0, !.text = text,
                                         !.trace = Append(@, AssistantMsg(req[r].step))])]
    /\ UNCHANGED <<variant, booted, mcpConfig, init, mcpTools, skillTools,
                 configFiles, disk, run, interp, skillsDir, tempFiles, applied,
                 client>>

\* generateText rejects (a model call or the tool dispatch raised): the catch
\* block of the handler answers 500
GenerateThrows(r) ==
    /\ req[r].pc \in {"model", "tools"}
    /\ \E message \in ErrorMessages :
          req' = [req EXCEPT ![r] =
                    [IdleReq EXCEPT !.pc = "done", !.body = req[r].body,
                                    !.tools = req[r].tools,
                                    !.toolChoice = req[r].toolChoice,
                                    !.status = 500, !.resp = ErrorBody(message)]]
    /\ UNCHANGED <<variant, booted, mcpConfig, init, mcpTools, skillTools,
                 configFiles, disk, run, interp, skillsDir, tempFiles, applied,
                 client>>

-----------------------------------------------------------------------------
(* Paths and the file system *)

\* String.prototype.split('/'): the segments of s, cur being the one under way
RECURSIVE SplitFrom(_, _)
SplitFrom(s, cur) ==
    IF s = <<>> THEN <<cur>>
    ELSE IF Head(s) = "/" THEN <<cur>> \o SplitFrom(Tail(s), <<>>)
    ELSE SplitFrom(Tail(s), Append(cur, Head(s)))

Segments(s) == SplitFrom(s, <<>>)

Dot == <<".">>
DotDot == <<".", ".">>

\* the segments of a normalized path: '.' and empty segments dropped, '..'
\* taking back the segment before it
RECURSIVE NormalizeSegments(_, _, _)
NormalizeSegments(segs, acc, absolute) ==
    IF segs = <<>> THEN acc
    ELSE LET seg == Head(segs)
             rest == Tail(segs)
         IN IF seg = <<>> \/ seg = Dot
            THEN NormalizeSegments(rest, acc, absolute)
            ELSE IF seg # DotDot
            THEN NormalizeSegments(rest, Append(acc, seg), absolute)
            ELSE IF acc # <<>> /\ acc[Len(acc)] # DotDot
            THEN NormalizeSegments(rest, SubSeq(acc, 1, Len(acc) - 1), absolute)
            ELSE IF absolute
            THEN NormalizeSegments(rest, acc, absolute)
            ELSE NormalizeSegments(rest, Append(acc, seg), absolute)

RECURSIVE JoinSegments(_)
JoinSegments(segs) ==
    IF segs = <<>> THEN <<>>
    ELSE IF Len(segs) = 1 THEN segs[1]
    ELSE segs[1] \o <<"/">> \o JoinSegments(Tail(segs))

\* path.isAbsolute (POSIX)
isAbsolute(p) == p # <<>> /\ p[1] = "/"

\* path.resolve of an absolute path: normalized, without trailing separator
Resolve(p) ==
    <<"/">> \o JoinSegments(NormalizeSegments(Segments(p), <<>>, TRUE))

\* path.normalize (POSIX): a trailing separator is kept
Normalize(p) ==
    LET segs == NormalizeSegments(Segments(p), <<>>, isAbsolute(p))
        trailing == p # <<>> /\ p[Len(p)] = "/" /\ segs # <<>>
        body == JoinSegments(segs) \o (IF trailing THEN <<"/">> ELSE <<>>)
    IN IF isAbsolute(p) THEN <<"/">> \o body
       ELSE IF segs = <<>> THEN Dot
       ELSE body

\* path.join(a, b)
PathJoin(a, b) == IF b = <<>> THEN Normalize(a) ELSE Normalize(a \o <<"/">> \o b)

\* path.dirname of an absolute path
Dirname(p) ==
    LET segs == Segments(p)
    IN IF Len(segs) <= 2 THEN <<"/">>
       ELSE JoinSegments(SubSeq(segs, 1, Len(segs) - 1))

\* a prefix test that also asks for a separator after the prefix (used to
\* state what `inside the project root` means)
InsideDir(s, dir) ==
    /\ Len(dir) < Len(s)
    /\ SubSeq(s, 1, Len(dir)) = dir
    /\ s[Len(dir) + 1] = "/"

\* String.prototype.startsWith
StartsWith(s, prefix) ==
    Len(prefix) <= Len(s) /\ SubSeq(s, 1, Len(prefix)) = prefix

\* PROJECT_ROOT, an absolute normalized path
PROJECT_ROOT == <<"/", "p">>

\* the file system: the kind of the entry at each absolute normalized path
Kind(d, p) ==
    IF p = <<"/">> THEN "dir" ELSE IF p \in DOMAIN d THEN d[p] ELSE "none"

NoEntry == [found |-> FALSE, path |-> <<>>]

\* the kernel's resolution of a path, component after component: every
\* component it passes through must be a directory
RECURSIVE Walk(_, _, _)
Walk(d, cur, rest) ==
    LET here == <<"/">> \o JoinSegments(cur)
    IN IF rest = <<>> THEN [found |-> TRUE, path |-> here]
       ELSE IF Kind(d, here) # "dir" THEN NoEntry
       ELSE LET seg == Head(rest)
            IN IF seg = <<>> \/ seg = Dot THEN Walk(d, cur, Tail(rest))
               ELSE IF seg = DotDot
               THEN Walk(d, IF cur = <<>> THEN cur ELSE SubSeq(cur, 1, Len(cur) - 1),
                         Tail(rest))
               ELSE Walk(d, Append(cur, seg), Tail(rest))

Locate(d, p) == Walk(d, <<>>, Segments(p))

\* fs.existsSync
existsSync(d, p) == Locate(d, p).found /\ Kind(d, Locate(d, p).path) # "none"

\* fs.mkdirSync(dir, { recursive: true }): dir and its missing ancestors
RECURSIVE MkdirP(_, _)
MkdirP(d, dir) ==
    IF dir = <<"/">> \/ Kind(d, dir) # "none" THEN d
    ELSE LET up == MkdirP(d, Dirname(dir))
         IN [q \in DOMAIN up \cup {dir} |-> IF q = dir THEN "dir" ELSE up[q]]

Without(d, p) == [q \in DOMAIN d \ {p} |-> d[q]]
WithFile(d, p) == [q \in DOMAIN d \cup {p} |-> IF q = p THEN "file" ELSE d[q]]

\* the sample file system: the project /p with a file and a directory, a
\* sibling /p2 whose name begins with the project's, and an unrelated /q
SampleDisk ==
    ( <<"/", "p">> :> "dir" ) @@
    ( <<"/", "p", "/", "a">> :> "file" ) @@
    ( <<"/", "p", "/", "d">> :> "dir" ) @@
    ( <<"/", "p", "2">> :> "dir" ) @@
    ( <<"/", "p", "2", "/", "a">> :> "file" ) @@
    ( <<"/", "q">> :> "dir" ) @@
    ( <<"/", "q", "/", "a">> :> "file" )

\* paths the model passes to the file tools
SamplePaths ==
    { <<"a">>, <<"d">>, <<"x">>,
      <<".", ".", "/", "p", "2", "/", "a">>,
      <<".", ".", "/", "q", "/", "a">>,
      <<"d", "/", ".", ".", "/", "a">>,
      <<"/", "p", "/", "a">>,
      <<"/", "p", "2", "/", "a">>,
      <<"/", "q", "/", "a">>,
      <<"/", "p", "/", ".", ".", "/", "q", "/", "a">> }

\* paths the model passes to writeFile: an existing file, a new file, a new
\* file in a new directory, a directory
SampleWritePaths == { <<"a">>, <<"n">>, <<"m", "/", "n">>, <<"d">> }

-----------------------------------------------------------------------------
(* Execution of the local tools *)

\* how a stretch of code ends: it returns a value or throws an error; disk is
\* the file system it leaves
\* (caught: the value comes from a catch block)
Returned(value, d) ==
    [threw |-> FALSE, caught |-> FALSE, value |-> value, message |-> "", disk |-> d]
Thrown(message, d) ==
    [threw |-> TRUE, caught |-> FALSE, value |-> [none |-> TRUE], message |-> message,
     disk |-> d]

\* a body whose error leaves the function (a missing try/catch)
NoCatch(outcome, caught) == outcome

\* try { body } catch (error) { return caught }
TryCatch(outcome, caught) ==
    IF outcome.threw
    THEN [Returned(caught, outcome.disk) EXCEPT !.caught = TRUE]
    ELSE outcome

\* error.message || fallback
MessageOr(message, fallback) == IF message # "" THEN message ELSE fallback

\* expressions the model passes to calculate and what eval makes of them
SampleExpressions == {"2+2", "2+", "x.y", "null.x"}
Eval(d, expression) ==
    CASE expression = "2+2" -> Returned(4, d)
      [] expression = "2+" -> Thrown("Unexpected end of input", d)
      [] expression = "x.y" -> Thrown("x is not defined", d)
      [] OTHER -> Thrown("Cannot read properties of null", d)

\* calculateTool.execute
calculate(d, expression) ==
    LET evaluated == Eval(d, expression)
        body == IF evaluated.threw THEN evaluated
                ELSE Returned([result |-> evaluated.value], d)
    IN TryCatch(body, [error |-> "Invalid expression"])

\* getCurrentTimeTool.execute
getCurrentTime(d) == Returned([time |-> "now"], d)

\* messages of the errors the fs calls throw
FsErrors == {"EACCES: permission denied", "EIO: i/o error"}

\* path.isAbsolute(filename) ? filename : path.join(PROJECT_ROOT, filename)
FilePathOf(filename) ==
    IF isAbsolute(filename) THEN filename ELSE PathJoin(PROJECT_ROOT, filename)

\* readFileTool.execute: the outcomes it can have
readFile(d, filename) ==
    LET filePath == FilePathOf(filename)
        bodies ==
            IF ~existsSync(d, filePath)
            THEN {Returned([error |-> <<"not found", filename>>], d)}
            ELSE IF Kind(d, Locate(d, filePath).path) = "dir"
            THEN {Thrown("EISDIR: illegal operation on a directory, read", d)}
            ELSE {Returned([content |-> "text"], d)} \cup {Thrown(m, d) : m \in FsErrors}
    IN {TryCatch(body, [error |-> body.message]) : body \in bodies}

\* writeFileTool.execute: the outcomes it can have
writeFile(d, filepath) ==
    LET filePath == FilePathOf(filepath)
        dir == Dirname(filePath)
        made == IF ~existsSync(d, dir) THEN MkdirP(d, dir) ELSE d
        bodies ==
            IF Kind(made, dir) # "dir"
            THEN {Thrown("ENOTDIR: not a directory", made)}
            ELSE IF Kind(made, filePath) = "dir"
            THEN {Thrown("EISDIR: illegal operation on a directory, open", made)}
            ELSE {Returned([success |-> TRUE, message |-> <<"written", filePath>>],
                           WithFile(made, filePath))}
                     \cup {Thrown(m, made) : m \in FsErrors}
    IN {TryCatch(body, [error |-> body.message]) : body \in bodies}

\* resolvedPath.startsWith(resolvedRoot)
WithinRoot(resolvedPath, resolvedRoot) == StartsWith(resolvedPath, resolvedRoot)

\* deleteFileTool.execute: the outcomes it can have
deleteFile(d, filepath) ==
    LET filePath == FilePathOf(filepath)
        resolvedPath == Resolve(filePath)
        resolvedRoot == Resolve(PROJECT_ROOT)
        target == Locate(d, filePath).path
        bodies ==
            IF ~WithinRoot(resolvedPath, resolvedRoot)
            THEN {Returned([error |-> <<"outside project root", filepath>>], d)}
            ELSE IF ~existsSync(d, filePath)
            THEN {Returned([error |-> <<"not found", filepath>>], d)}
            ELSE IF Kind(d, target) = "dir"
            THEN {Returned([error |-> <<"is a directory", filepath>>], d)}
            ELSE {Returned([success |-> TRUE, message |-> <<"deleted", filepath>>],
                           Without(d, target))}
                     \cup {Thrown(m, d) : m \in FsErrors}
    IN {TryCatch(body, [error |-> body.message]) : body \in bodies}

-----------------------------------------------------------------------------
(* Execution of a provider (MCP) tool *)

\* items of the content of a provider's reply
TextItem(text) == [type |-> "text", text |-> text, uri |-> ""]
ResourceItem(uri) == [type |-> "resource", text |-> "", uri |-> uri]
ImageItem == [type |-> "image", text |-> "", uri |-> ""]

\* what mcpClient.callTool resolves to; hasContent is false when the reply
\* has no `content`
Reply(isError, hasContent, content) ==
    [raised |-> FALSE, message |-> "", isError |-> isError,
     hasContent |-> hasContent, content |-> content]
\* mcpClient.callTool rejects
Raised(message) ==
    [raised |-> TRUE, message |-> message, isError |-> FALSE,
     hasContent |-> FALSE, content |-> <<>>]

SampleReplies ==
    { Reply(FALSE, TRUE, <<TextItem("clean")>>),
      Reply(FALSE, TRUE, <<TextItem("a"), ResourceItem("file:///x"), ImageItem>>),
      Reply(FALSE, TRUE, <<>>),
      Reply(FALSE, FALSE, <<>>),
      Reply(TRUE, TRUE, <<TextItem("no such branch")>>),
      Reply(TRUE, TRUE, <<ImageItem>>),
      Reply(TRUE, FALSE, <<>>),
      Raised("Connection closed"),
      Raised("") }

SampleMcpToolNames == {"status", "add"}

\* result.content?.[0]?.text || fallback
FirstTextOr(reply, fallback) ==
    IF reply.hasContent /\ Len(reply.content) > 0 /\ reply.content[1].text # ""
    THEN reply.content[1].text
    ELSE fallback

\* one item of contentParts
ContentPart(item) ==
    CASE item.type = "text" -> item.text
      [] item.type = "resource" ->
            "[Resource: " \o (IF item.uri # "" THEN item.uri ELSE "unknown") \o "]"
      [] OTHER -> "JSON.stringify(item)"

\* the execute function of createToolFromMCP, from the reply of callTool on
McpExecute(v, name, reply, d) ==
    LET body ==
            IF reply.raised THEN Thrown(reply.message, d)
            ELSE IF v = "server"
            THEN IF reply.isError
                 THEN Returned([success |-> FALSE,
                                error |-> FirstTextOr(reply, "Unknown error"),
                                toolName |-> name], d)
                 ELSE Returned([success |-> TRUE,
                                result |-> IF reply.hasContent /\ Len(reply.content) > 0
                                           THEN [i \in 1..Len(reply.content) |->
                                                    ContentPart(reply.content[i])]
                                           ELSE <<"JSON.stringify(result)">>,
                                toolName |-> name,
                                message |-> <<"executed successfully", name>>], d)
            ELSE IF reply.isError
                 THEN Returned([error |-> FirstTextOr(reply, "Unknown error")], d)
                 ELSE Returned([result |-> FirstTextOr(reply, "JSON.stringify(result.content)")], d)
        caught ==
            IF v = "server"
            THEN [success |-> FALSE,
                  error |-> MessageOr(body.message, "Failed to call MCP tool"),
                  toolName |-> name]
            ELSE [error |-> MessageOr(body.message, "Failed to call MCP tool")]
    IN TryCatch(body, caught)

-----------------------------------------------------------------------------
(* Execution of a skill tool *)

MaxBlocks == 3       \* fenced code blocks in a sample SKILL.md

ExecutableLanguages ==
    { <<"b", "a", "s", "h">>, <<"s", "h">>, <<"s", "h", "e", "l", "l">>,
      <<"p", "y", "t", "h", "o", "n">>, <<"p", "y", "t", "h", "o", "n", "3">>,
      <<"n", "o", "d", "e">>, <<"j", "a", "v", "a", "s", "c", "r", "i", "p", "t">>,
      <<"j", "s">>, <<"t", "y", "p", "e", "s", "c", "r", "i", "p", "t">>, <<"t", "s">> }

\* languages executeScript runs from a temporary file
TempFileLanguages ==
    ExecutableLanguages \ { <<"b", "a", "s", "h">>, <<"s", "h">>, <<"s", "h", "e", "l", "l">> }

\* a test that takes a block without tag for not executable (a faulty test)
ExecutableTaggedOnly(b) == b.language \in ExecutableLanguages

\* executableLanguages.includes(b.language) || b.language === ''
Executable(b) == b.language \in ExecutableLanguages \/ b.language = <<>>

\* a fenced block of SKILL.md: the language as written after the fence (none:
\* <<>>) and the trimmed code ("" when the block is empty)
RawBlock(language, code) == [language |-> language, code |-> code]

RawBlockPool ==
    { RawBlock(<<"B", "a", "s", "h">>, "echo hi"),
      RawBlock(<<"p", "y", "t", "h", "o", "n">>, "print(1)"),
      RawBlock(<<"j", "s", "o", "n">>, "{}"),
      RawBlock(<<>>, "ls"),
      RawBlock(<<"s", "h">>, "") }

SkillFiles == UNION { [1..n -> RawBlockPool] : n \in 0..MaxBlocks }

\* a loop that counts the empty blocks too (a faulty numbering)
RECURSIVE CodeBlocksNumberedByMatch(_, _)
CodeBlocksNumberedByMatch(raw, index) ==
    IF raw = <<>> THEN <<>>
    ELSE IF Head(raw).code # ""
    THEN <<[language |-> ToLowerCase(Head(raw).language), code |-> Head(raw).code,
            index |-> index]>> \o CodeBlocksNumberedByMatch(Tail(raw), index + 1)
    ELSE CodeBlocksNumberedByMatch(Tail(raw), index + 1)

\* the while loop of loadSkills over the fenced blocks: a block with code is
\* pushed with the next index, an empty one is passed over
RECURSIVE CodeBlocksFrom(_, _)
CodeBlocksFrom(raw, index) ==
    IF raw = <<>> THEN <<>>
    ELSE IF Head(raw).code # ""
    THEN <<[language |-> ToLowerCase(Head(raw).language), code |-> Head(raw).code,
            index |-> index]>> \o CodeBlocksFrom(Tail(raw), index + 1)
    ELSE CodeBlocksFrom(Tail(raw), index)

\* the SkillInfo loadSkills builds from a SKILL.md
SkillInfoOf(raw) ==
    LET codeBlocks == CodeBlocksFrom(raw, 0)
    IN [codeBlocks |-> codeBlocks,
        hasExecutableScripts |-> \E i \in 1..Len(codeBlocks) : Executable(codeBlocks[i])]

\* the skills of every SKILL.md within the bounds, and a few sample ones
AllSkills == {SkillInfoOf(raw) : raw \in SkillFiles}
SampleSkills ==
    { SkillInfoOf(<<>>),
      SkillInfoOf(<<RawBlock(<<"j", "s", "o", "n">>, "{}")>>),
      SkillInfoOf(<<RawBlock(<<"B", "a", "s", "h">>, "echo hi"),
                    RawBlock(<<"p", "y", "t", "h", "o", "n">>, "print(1)")>>) }

\* the optional scriptIndex argument
NoIndex == [defined |-> FALSE, value |-> 0]
Index(i) == [defined |-> TRUE, value |-> i]
ScriptIndexes == {NoIndex} \cup {Index(i) : i \in -1..MaxBlocks}

\* a selection that takes every executable block whatever scriptIndex says
\* (a faulty selection)
ScriptsToExecuteAll(codeBlocks, scriptIndex) == SelectSeq(codeBlocks, Executable)

\* scriptsToExecute; codeBlocks[scriptIndex] is undefined outside the array
ScriptsToExecute(codeBlocks, scriptIndex) ==
    IF scriptIndex.defined
    THEN IF scriptIndex.value + 1 \in 1..Len(codeBlocks)
         THEN SelectSeq(<<codeBlocks[scriptIndex.value + 1]>>, Executable)
         ELSE <<>>
    ELSE SelectSeq(codeBlocks, Executable)

\* what `await execAsync(command, ...)` makes of a script: it exits with
\* status 0, or exec rejects
ScriptResults(language) ==
    {[success |-> TRUE, output |-> "stdout", error |-> ""],
     [success |-> FALSE, output |-> "", error |-> "Command failed"]}

\* executionResults.push({ index, language, code, ...result })
ExecutionResult(script, result) ==
    [index |-> script.index, language |-> script.language, code |-> script.code,
     success |-> result.success, output |-> result.output, error |-> result.error]

\* events of a run: a call of executeScript and its resolution
Started(index) == [event |-> "start", index |-> index]
Ended(index) == [event |-> "end", index |-> index]

\* the value execute returns after the loop over scriptsToExecute
ExecutedValue(executionResults) ==
    [success |-> TRUE, scriptsExecuted |-> Len(executionResults),
     executionResults |-> executionResults]

\* the value execute returns by default: the skill's content and blocks
LoadedValue(skill) ==
    [success |-> TRUE,
     codeBlocks |-> [i \in 1..Len(skill.codeBlocks) |->
                        [language |-> skill.codeBlocks[i].language,
                         code |-> skill.codeBlocks[i].code,
                         index |-> skill.codeBlocks[i].index,
                         executable |-> Executable(skill.codeBlocks[i])]],
     hasExecutableScripts |-> skill.hasExecutableScripts]

-----------------------------------------------------------------------------
(* One execution of a tool *)

NoValue == [none |-> TRUE]

IdleRun ==
    [tool |-> "", pc |-> "idle", args |-> <<>>, threw |-> FALSE, caught |-> FALSE,
     value |-> NoValue, scripts |-> <<>>, results |-> <<>>, log |-> <<>>]

\* the execute function has returned or thrown
Finished(tool, args, outcome) ==
    [IdleRun EXCEPT !.tool = tool, !.pc = "done", !.args = args,
                    !.threw = outcome.threw, !.caught = outcome.caught,
                    !.value = IF outcome.threw THEN [thrown |-> outcome.message]
                              ELSE outcome.value]

CanCall == run.pc \in {"idle", "done"}

CallCalculate ==
    /\ CanCall
    /\ \E expression \in SampleExpressions :
          run' = Finished("calculate", expression, calculate(disk, expression))
    /\ UNCHANGED <<variant, booted, mcpConfig, init, mcpTools, skillTools, req,
                 configFiles, disk, interp, skillsDir, tempFiles, applied,
                 client>>

CallGetCurrentTime ==
    /\ CanCall
    /\ run' = Finished("getCurrentTime", <<>>, getCurrentTime(disk))
    /\ UNCHANGED <<variant, booted, mcpConfig, init, mcpTools, skillTools, req,
                 configFiles, disk, interp, skillsDir, tempFiles, applied,
                 client>>

CallReadFile ==
    /\ CanCall
    /\ \E filename \in SamplePaths : \E outcome \in readFile(disk, filename) :
          /\ run' = Finished("readFile", filename, outcome)
          /\ disk' = outcome.disk
    /\ UNCHANGED <<variant, booted, mcpConfig, init, mcpTools, skillTools, req,
                 configFiles, interp, skillsDir, tempFiles, applied, client>>

CallWriteFile ==
    /\ CanCall
    /\ \E filepath \in SampleWritePaths : \E outcome \in writeFile(disk, filepath) :
          /\ run' = Finished("writeFile", filepath, outcome)
          /\ disk' = outcome.disk
    /\ UNCHANGED <<variant, booted, mcpConfig, init, mcpTools, skillTools, req,
                 configFiles, interp, skillsDir, tempFiles, applied, client>>

CallDeleteFile ==
    /\ CanCall
    /\ \E filepath \in SamplePaths : \E outcome \in deleteFile(disk, filepath) :
          /\ run' = Finished("deleteFile", filepath, outcome)
          /\ disk' = outcome.disk
    /\ UNCHANGED <<variant, booted, mcpConfig, init, mcpTools, skillTools, req,
                 configFiles, interp, skillsDir, tempFiles, applied, client>>

\* execute of a provider tool up to `await mcpClient.callTool(...)`
CallMcpTool ==
    /\ CanCall
    /\ \E name \in SampleMcpToolNames :
          run' = [IdleRun EXCEPT !.tool = "mcp", !.pc = "rpc", !.args = [name |-> name]]
    /\ UNCHANGED <<variant, booted, mcpConfig, init, mcpTools, skillTools, req,
                 configFiles, disk, interp, skillsDir, tempFiles, applied,
                 client>>

\* callTool resolves or rejects; execute runs to its return
RpcReturns ==
    /\ run.pc = "rpc"
    /\ \E reply \in SampleReplies :
          run' = Finished("mcp", [name |-> run.args.name, reply |-> reply],
                          McpExecute(variant, run.args.name, reply, disk))
    /\ UNCHANGED <<variant, booted, mcpConfig, init, mcpTools, skillTools, req,
                 configFiles, disk, interp, skillsDir, tempFiles, applied,
                 client>>

MaxTempFiles == 3    \* temporary files the skill runs of one behaviour write

\* a temporary file of executeScript: the script it holds, whether it is on
\* disk, whether its write succeeded, its clean-up timer (none, pending,
\* fired), the interpreter process that reads it (none, running, succeeded,
\* failed), and whether the timer's callback let an error escape
TempFile(script, written, timer, process) ==
    [index |-> script.index, language |-> script.language, exists |-> TRUE,
     written |-> written, timer |-> timer, process |-> process, uncaught |-> FALSE]

NoResult == [success |-> FALSE, output |-> "", error |-> ""]
WriteFailed == [success |-> FALSE, output |-> "", error |-> "ENOSPC: no space left"]
Unsupported == [success |-> FALSE, output |-> "", error |-> "Unsupported script language"]

\* a start that sets no timer for the file it wrote (a faulty clean-up)
StartScriptUnscheduled(script, files) ==
    IF script.language \notin ExecutableLanguages /\ script.language # <<>>
    THEN {[awaiting |-> FALSE, result |-> Unsupported, tempFiles |-> files]}
    ELSE IF script.language \notin TempFileLanguages
    THEN {[awaiting |-> TRUE, result |-> NoResult, tempFiles |-> files]}
    ELSE { [awaiting |-> TRUE, result |-> NoResult,
            tempFiles |-> Append(files, TempFile(script, TRUE, "none", "running"))],
           [awaiting |-> FALSE, result |-> WriteFailed, tempFiles |-> files],
           [awaiting |-> FALSE, result |-> WriteFailed,
            tempFiles |-> Append(files, TempFile(script, FALSE, "none", "none"))] }

\* executeScript(language, code) from its call to `await execAsync(command)`
\* or to its return, and the temporary files it leaves: a shell script is run
\* as it is; for the other languages the code is written to a new file and a
\* timer is set to unlink it. fs.writeFileSync can throw, before or after it
\* created the file, and the catch block then returns the failure
StartScript(script, files) ==
    IF script.language \notin ExecutableLanguages /\ script.language # <<>>
    THEN {[awaiting |-> FALSE, result |-> Unsupported, tempFiles |-> files]}
    ELSE IF script.language \notin TempFileLanguages
    THEN {[awaiting |-> TRUE, result |-> NoResult, tempFiles |-> files]}
    ELSE { [awaiting |-> TRUE, result |-> NoResult,
            tempFiles |-> Append(files, TempFile(script, TRUE, "pending", "running"))],
           [awaiting |-> FALSE, result |-> WriteFailed, tempFiles |-> files],
           [awaiting |-> FALSE, result |-> WriteFailed,
            tempFiles |-> Append(files, TempFile(script, FALSE, "none", "none"))] }

\* the loop over scriptsToExecute from its next script to the next
\* `await execAsync`, or to the return of execute: a call of executeScript that
\* returns without awaiting a process is followed at once by the next one
RECURSIVE RunScripts(_, _)
RunScripts(r, files) ==
    IF Len(r.results) = Len(r.scripts)
    THEN {[run |-> [r EXCEPT !.pc = "done", !.value = ExecutedValue(r.results)],
           tempFiles |-> files]}
    ELSE LET script == r.scripts[Len(r.results) + 1]
             called == [r EXCEPT !.log = Append(@, Started(script.index))]
         IN UNION { IF s.awaiting
                    THEN {[run |-> [called EXCEPT !.pc = "script"], tempFiles |-> s.tempFiles]}
                    ELSE RunScripts([called EXCEPT
                                        !.results = Append(@, ExecutionResult(script, s.result)),
                                        !.log = Append(@, Ended(script.index))],
                                    s.tempFiles)
                  : s \in StartScript(script, files) }

\* execute of a skill tool up to its first `await execAsync(...)`, or to its
\* return when no process is awaited
CallSkillFrom(skills) ==
    /\ CanCall
    /\ variant = "server"
    /\ \E skill \in skills, shouldExecute \in BOOLEAN, scriptIndex \in ScriptIndexes :
          LET args == [skill |-> skill, executeScript |-> shouldExecute,
                       scriptIndex |-> scriptIndex]
              scriptsToExecute == ScriptsToExecute(skill.codeBlocks, scriptIndex)
          IN IF shouldExecute /\ skill.hasExecutableScripts /\ Len(skill.codeBlocks) > 0
             THEN /\ Len(tempFiles) + Len(scriptsToExecute) <= MaxTempFiles
                  /\ \E next \in RunScripts([IdleRun EXCEPT !.tool = "skill", !.args = args,
                                                              !.scripts = scriptsToExecute],
                                             tempFiles) :
                        /\ run' = next.run
                        /\ tempFiles' = next.tempFiles
             ELSE /\ run' = Finished("skill", args, Returned(LoadedValue(skill), disk))
                  /\ tempFiles' = tempFiles
    /\ UNCHANGED <<variant, booted, mcpConfig, init, mcpTools, skillTools, req,
                   configFiles, disk, interp, skillsDir, applied, client>>

\* the sample skills, called while no temporary file is left from an earlier run
CallSkill == tempFiles = <<>> /\ CallSkillFrom(SampleSkills)
CallAnySkill == run.pc = "idle" /\ CallSkillFrom(AllSkills)

\* the process of the awaited script has ended
Exited(files, result) ==
    [i \in 1..Len(files) |->
        IF files[i].process = "running"
        THEN [files[i] EXCEPT !.process = IF result.success THEN "succeeded" ELSE "failed"]
        ELSE files[i]]

\* a loop that gives up at the first failing script (a faulty batch)
ScriptExitsAborting ==
    /\ run.pc = "script"
    /\ LET script == run.scripts[Len(run.results) + 1]
       IN \E result \in ScriptResults(script.language) :
             LET r == [run EXCEPT !.results = Append(@, ExecutionResult(script, result)),
                                  !.log = Append(@, Ended(script.index))]
             IN IF ~result.success
                THEN /\ run' = [r EXCEPT !.pc = "done", !.value = ExecutedValue(r.results)]
                     /\ tempFiles' = Exited(tempFiles, result)
                ELSE \E next \in RunScripts(r, Exited(tempFiles, result)) :
                        /\ run' = next.run
                        /\ tempFiles' = next.tempFiles
    /\ UNCHANGED <<variant, booted, mcpConfig, init, mcpTools, skillTools, req,
                   configFiles, disk, interp, skillsDir, applied, client>>

\* `await execAsync(...)` resolves or rejects: executeScript returns, the
\* result is pushed, and the loop goes on to the next script or execute returns
ScriptExits ==
    /\ run.pc = "script"
    /\ LET script == run.scripts[Len(run.results) + 1]
       IN \E result \in ScriptResults(script.language) :
             LET r == [run EXCEPT !.results = Append(@, ExecutionResult(script, result)),
                                  !.log = Append(@, Ended(script.index))]
             IN \E next \in RunScripts(r, Exited(tempFiles, result)) :
                   /\ run' = next.run
                   /\ tempFiles' = next.tempFiles
    /\ UNCHANGED <<variant, booted, mcpConfig, init, mcpTools, skillTools, req,
                   configFiles, disk, interp, skillsDir, applied, client>>

\* the callback of the oldest pending timer runs, 5000 ms after it was set:
\* try { fs.unlinkSync(tempFile) } catch {}
TimerFires ==
    /\ \E i \in 1..Len(tempFiles), unlinked \in BOOLEAN :
          /\ tempFiles[i].timer = "pending"
          /\ \A j \in 1..(i - 1) : tempFiles[j].timer # "pending"
          /\ LET outcome == TryCatch(IF unlinked THEN Returned(NoValue, disk)
                                     ELSE Thrown("EPERM: operation not permitted, unlink", disk),
                                     NoValue)
             IN tempFiles' = [tempFiles EXCEPT ![i] =
                                 [@ EXCEPT !.timer = "fired", !.exists = ~unlinked,
                                           !.uncaught = outcome.threw]]
    /\ UNCHANGED <<variant, booted, mcpConfig, init, mcpTools, skillTools, req,
                   configFiles, disk, run, interp, skillsDir, applied, client>>

-----------------------------------------------------------------------------
(* Interpolation of the provider configuration *)

MaxPieces == 2       \* pieces a sample configuration string is made of

\* the literal patterns of interpolateConfig
UserHomeToken == <<"$", "{", "u", "s", "e", "r", "H", "o", "m", "e", "}">>
WorkspaceFolderToken == <<"$", "{", "w", "o", "r", "k", "s", "p", "a", "c", "e", "F", "o", "l", "d", "e", "r", "}">>
WorkspaceFolderBasenameToken == <<"$", "{", "w", "o", "r", "k", "s", "p", "a", "c", "e", "F", "o", "l", "d", "e", "r", "B", "a", "s", "e", "n", "a", "m", "e", "}">>
PathSeparatorToken == <<"$", "{", "p", "a", "t", "h", "S", "e", "p", "a", "r", "a", "t", "o", "r", "}">>
SlashToken == <<"$", "{", "/", "}">>
EnvPrefix == <<"$", "{", "e", "n", "v", ":">>

\* what the substitution reads: os.homedir(), the workspaceFolder argument
\* and process.env (a variable that is not in env is unset)
World(home, workspaceFolder, env) ==
    [home |-> home, workspaceFolder |-> workspaceFolder, env |-> env]

NoEnv == [n \in {} |-> <<>>]

\* X is set to a plain value, Y is unset; a workspace folder whose name holds
\* `$$`; X set to text that itself names a token
Worlds ==
    { World(<<"/", "h">>, <<"/", "w", "/", "p">>, (<<"X">> :> <<"v">>)),
      World(<<"/", "h">>, <<"/", "w", "/", "a", "$", "$", "b">>, (<<"X">> :> <<"v">>)),
      World(<<"/", "h">>, <<"/", "w", "/", "p">>, (<<"X">> :> UserHomeToken)) }

\* pieces of the sample strings: literal text, fragments of tokens, the four
\* documented tokens and the two further ones
Pieces ==
    { <<"a">>, <<"$">>, <<"$", "{">>, <<"}">>, <<"$", "{", "e", "n", "v", ":", "}">>,
      <<"$", "{", "e", "n", "v", ":", "X", "}">>, <<"$", "{", "e", "n", "v", ":", "Y", "}">>,
      UserHomeToken, WorkspaceFolderToken, WorkspaceFolderBasenameToken,
      PathSeparatorToken, SlashToken }

RECURSIVE Concat(_)
Concat(parts) == IF parts = <<>> THEN <<>> ELSE Head(parts) \o Concat(Tail(parts))

SampleStrings == { Concat(parts) : parts \in UNION { [1..n -> Pieces] : n \in 0..MaxPieces } }

\* the index of the first c in s at or after i, 0 when there is none
RECURSIVE IndexOfFrom(_, _, _)
IndexOfFrom(s, c, i) ==
    IF i > Len(s) THEN 0
    ELSE IF s[i] = c THEN i
    ELSE IndexOfFrom(s, c, i + 1)

\* a pattern that also takes an empty name, /\$\{env:([^}]*)\}/ (a faulty pattern)
EnvMatchEndAllowingEmpty(s) ==
    IF ~StartsWith(s, EnvPrefix) THEN 0
    ELSE IndexOfFrom(s, "}", Len(EnvPrefix) + 1)

\* the end of the match of /\$\{env:([^}]+)\}/ at the head of s, 0 when it
\* does not match there
EnvMatchEnd(s) ==
    IF ~StartsWith(s, EnvPrefix) THEN 0
    ELSE LET close == IndexOfFrom(s, "}", Len(EnvPrefix) + 1)
         IN IF close > Len(EnvPrefix) + 1 THEN close ELSE 0

\* process.env[name] || ''
EnvValue(world, name) == IF name \in DOMAIN world.env THEN world.env[name] ELSE <<>>

\* .replace(/\$\{env:([^}]+)\}/g, (_, name) => process.env[name] || '')
RECURSIVE ReplaceEnv(_, _)
ReplaceEnv(s, world) ==
    IF s = <<>> THEN <<>>
    ELSE LET close == EnvMatchEnd(s)
         IN IF close > 0
            THEN EnvValue(world, SubSeq(s, Len(EnvPrefix) + 1, close - 1))
                    \o ReplaceEnv(SubSeq(s, close + 1, Len(s)), world)
            ELSE <<Head(s)>> \o ReplaceEnv(Tail(s), world)

\* GetSubstitution of String.prototype.replace for a replacement given as a
\* string and a pattern without groups: $$, $&, $' and $ followed by a grave
\* accent (written "u0060") are expanded
RECURSIVE GetSubstitution(_, _, _, _)
GetSubstitution(replacement, matched, before, after) ==
    IF replacement = <<>> THEN <<>>
    ELSE IF Len(replacement) >= 2 /\ replacement[1] = "$"
              /\ replacement[2] \in {"$", "&", "u0060", "'"}
    THEN (CASE replacement[2] = "$" -> <<"$">>
            [] replacement[2] = "&" -> matched
            [] replacement[2] = "u0060" -> before
            [] OTHER -> after)
            \o GetSubstitution(SubSeq(replacement, 3, Len(replacement)), matched, before, after)
    ELSE <<Head(replacement)>> \o GetSubstitution(Tail(replacement), matched, before, after)

\* s.replace(/pattern/g, replacement) for a literal pattern, from index i on
RECURSIVE ReplaceAllFrom(_, _, _, _)
ReplaceAllFrom(s, i, pattern, replacement) ==
    IF i > Len(s) THEN <<>>
    ELSE IF i + Len(pattern) - 1 <= Len(s) /\ SubSeq(s, i, i + Len(pattern) - 1) = pattern
    THEN GetSubstitution(replacement, pattern, SubSeq(s, 1, i - 1),
                         SubSeq(s, i + Len(pattern), Len(s)))
            \o ReplaceAllFrom(s, i + Len(pattern), pattern, replacement)
    ELSE <<s[i]>> \o ReplaceAllFrom(s, i + 1, pattern, replacement)

ReplaceAll(s, pattern, replacement) == ReplaceAllFrom(s, 1, pattern, replacement)

\* path.basename
Basename(p) == LET segs == NormalizeSegments(Segments(p), <<>>, isAbsolute(p))
               IN IF segs = <<>> THEN <<>> ELSE segs[Len(segs)]

\* path.sep
PathSep == <<"/">>

interpolateConfig(value, world) ==
    LET s1 == ReplaceEnv(value, world)
        s2 == ReplaceAll(s1, UserHomeToken, world.home)
        s3 == ReplaceAll(s2, WorkspaceFolderToken, world.workspaceFolder)
        s4 == ReplaceAll(s3, WorkspaceFolderBasenameToken, Basename(world.workspaceFolder))
        s5 == ReplaceAll(s4, PathSeparatorToken, PathSep)
    IN ReplaceAll(s5, SlashToken, PathSep)

\* values of a parsed JSON document
JString(chars) == [kind |-> "string", chars |-> chars, keys |-> <<>>, items |-> <<>>]
JNumber == [kind |-> "number", chars |-> <<>>, keys |-> <<>>, items |-> <<>>]
JNull == [kind |-> "null", chars |-> <<>>, keys |-> <<>>, items |-> <<>>]
JArray(items) == [kind |-> "array", chars |-> <<>>, keys |-> <<>>, items |-> items]
JObject(keys, items) == [kind |-> "object", chars |-> <<>>, keys |-> keys, items |-> items]

RECURSIVE interpolateConfigObject(_, _)
interpolateConfigObject(obj, world) ==
    CASE obj.kind = "string" -> JString(interpolateConfig(obj.chars, world))
      [] obj.kind \in {"array", "object"} ->
            [obj EXCEPT !.items = [i \in 1..Len(obj.items) |->
                                     interpolateConfigObject(obj.items[i], world)]]
      [] OTHER -> obj

\* a provider entry holding the string s: a command, arguments, an
\* environment whose key looks like a token, and a number
SampleEntry(s) ==
    JObject(<<<<"c", "o", "m", "m", "a", "n", "d">>, <<"a", "r", "g", "s">>,
              <<"e", "n", "v">>, <<"n">>>>,
            << JString(s),
               JArray(<<JString(s), JString(<<"a">>), JNull>>),
               JObject(<<UserHomeToken>>, <<JString(UserHomeToken)>>),
               JNumber >>)

IdleInterp ==
    [pc |-> "idle", world |-> World(<<>>, <<>>, NoEnv), input |-> <<>>,
     output |-> <<>>, again |-> <<>>, obj |-> JNull, objOutput |-> JNull]

\* interpolateConfig(value, workspaceFolder) is applied to a string
Interpolate ==
    /\ interp.pc = "idle"
    /\ \E world \in Worlds, value \in SampleStrings :
          interp' = [IdleInterp EXCEPT !.pc = "once", !.world = world, !.input = value,
                                       !.output = interpolateConfig(value, world)]
    /\ UNCHANGED <<variant, booted, mcpConfig, init, mcpTools, skillTools, req,
                 configFiles, disk, run, skillsDir, tempFiles, applied, client>>

\* interpolateConfig is applied to its own output
InterpolateAgain ==
    /\ interp.pc = "once"
    /\ interp' = [interp EXCEPT !.pc = "twice",
                                !.again = interpolateConfig(interp.output, interp.world)]
    /\ UNCHANGED <<variant, booted, mcpConfig, init, mcpTools, skillTools, req,
                 configFiles, disk, run, skillsDir, tempFiles, applied, client>>

\* interpolateConfigObject(config, PROJECT_ROOT) is applied to a provider entry
InterpolateObject ==
    /\ interp.pc = "idle"
    /\ \E world \in Worlds, value \in SampleStrings :
          interp' = [IdleInterp EXCEPT !.pc = "object", !.world = world, !.input = value,
                                       !.obj = SampleEntry(value),
                                       !.objOutput = interpolateConfigObject(SampleEntry(value), world)]
    /\ UNCHANGED <<variant, booted, mcpConfig, init, mcpTools, skillTools, req,
                 configFiles, disk, run, skillsDir, tempFiles, applied, client>>

-----------------------------------------------------------------------------
(* The environment file of a provider *)

MaxEnvLines == 3     \* lines of a sample environment file

\* String.prototype.split(sep): the pieces of s, cur being the one under way
RECURSIVE SplitOn(_, _, _)
SplitOn(s, sep, cur) ==
    IF s = <<>> THEN <<cur>>
    ELSE IF Head(s) = sep THEN <<cur>> \o SplitOn(Tail(s), sep, <<>>)
    ELSE SplitOn(Tail(s), sep, Append(cur, Head(s)))

\* Array.prototype.join('\n')
RECURSIVE JoinLines(_)
JoinLines(lines) ==
    IF lines = <<>> THEN <<>>
    ELSE IF Len(lines) = 1 THEN lines[1]
    ELSE lines[1] \o <<"\n">> \o JoinLines(Tail(lines))

\* sample lines: assignments (plain, padded and quoted, with a lone quote, with
\* a second `=`, with an empty value), comments, blank lines, lines without a
\* key or without `=`
EnvLinePool ==
    { <<"A", "=", "1">>,
      <<" ", "A", " ", "=", " ", "\"", "1", "\"", " ">>,
      <<"B", "=", "'", "b">>,
      <<"A", "=", "2", "=", "3">>,
      <<"B", "=">>,
      <<"#", " ", "c">>,
      <<" ", "#", "A", "=", "1">>,
      <<>>,
      <<" ", "\t">>,
      <<"A">>,
      <<"=", "1">> }

\* the contents of the sample environment files
EnvFileContents ==
    { JoinLines(lines) : lines \in UNION { [1..n -> EnvLinePool] : n \in 0..MaxEnvLines } }

\* envFile values: relative and absolute names of a file, a name of nothing,
\* a name of a directory
SampleEnvFilePaths ==
    { <<"a">>, <<"/", "q", "/", "a">>, <<"x">>, <<"d">> }

\* trimmed.match(/^([^=]+)=(.*)$/): the index of the `=` that ends the key, 0
\* when the line does not match
KeyEnd(trimmed) ==
    LET i == IndexOfFrom(trimmed, "=", 1)
    IN IF i > 1 THEN i ELSE 0

QuoteChars == {"\"", "'"}

\* a replace that only takes the leading quote (a faulty pattern)
StripQuotesLeadingOnly(value) ==
    IF value # <<>> /\ value[1] \in QuoteChars THEN Tail(value) ELSE value

\* value.replace(/^["']|["']$/g, ''): a quote at the start is removed, and a
\* quote at the end of what follows it
StripQuotes(value) ==
    LET rest == IF value # <<>> /\ value[1] \in QuoteChars THEN Tail(value) ELSE value
    IN IF rest # <<>> /\ rest[Len(rest)] \in QuoteChars
       THEN SubSeq(rest, 1, Len(rest) - 1)
       ELSE rest

\* env[key] = value
Assign(env, key, value) ==
    [k \in DOMAIN env \cup {key} |-> IF k = key THEN value ELSE env[k]]

\* the for loop of loadEnvFile over the lines of the file
RECURSIVE EnvOfLines(_, _)
EnvOfLines(lines, env) ==
    IF lines = <<>> THEN env
    ELSE LET trimmed == Trim(Head(lines))
             i == KeyEnd(trimmed)
         IN IF trimmed # <<>> /\ ~StartsWith(trimmed, <<"#">>) /\ i > 0
            THEN EnvOfLines(Tail(lines),
                            Assign(env, Trim(SubSeq(trimmed, 1, i - 1)),
                                   StripQuotes(Trim(SubSeq(trimmed, i + 1, Len(trimmed))))))
            ELSE EnvOfLines(Tail(lines), env)

\* loadEnvFile(envFilePath, workspaceFolder) where content is what the file at
\* the resolved path holds: the outcomes it can have
loadEnvFile(d, content, envFilePath, workspaceFolder) ==
    LET resolvedPath == IF isAbsolute(envFilePath) THEN envFilePath
                        ELSE PathJoin(workspaceFolder, envFilePath)
    IN IF ~existsSync(d, resolvedPath)
       THEN {Returned(NoEnv, d)}
       ELSE IF Kind(d, Locate(d, resolvedPath).path) = "dir"
       THEN {Thrown("EISDIR: illegal operation on a directory, read", d)}
       ELSE {Returned(EnvOfLines(SplitOn(content, "\n", <<>>), NoEnv), d)}
                \cup {Thrown(m, d) : m \in FsErrors}

IdleApplied == [fn |-> "", input |-> <<>>, output |-> <<>>]

\* loadEnvFile(stdioConfig.envFile, PROJECT_ROOT) is called
LoadEnvFile ==
    /\ applied.fn = ""
    /\ \E envFilePath \in SampleEnvFilePaths, content \in EnvFileContents :
          \E outcome \in loadEnvFile(disk, content, envFilePath, PROJECT_ROOT) :
             applied' = [fn |-> "loadEnvFile",
                         input |-> [envFilePath |-> envFilePath, content |-> content],
                         output |-> outcome]
    /\ UNCHANGED <<variant, booted, mcpConfig, init, mcpTools, skillTools, req,
                   configFiles, disk, run, interp, skillsDir, tempFiles, client>>

-----------------------------------------------------------------------------
(* Translation of a provider's input schema *)

MaxDepth == 2        \* nesting of a sample schema

\* a field the JSON object does not have
Absent == [absent |-> TRUE]

\* the argument when there is no schema (undefined, null)
NoSchema == [type |-> "", items |-> Absent, properties |-> Absent, none |-> TRUE]

\* a JSON schema object: type is "" when it has no `type`; properties, when
\* present, maps each declared name to its schema
JsonSchema(type, items, properties) ==
    [type |-> type, items |-> items, properties |-> properties, none |-> FALSE]

Declared(fields) == [absent |-> FALSE, fields |-> fields]

\* `type` values: none, the four scalars, one the switch does not know
ScalarTypes == {"", "string", "number", "integer", "boolean", "null"}

NoFields == [n \in {} |-> NoSchema]

BaseSchemas ==
    {NoSchema}
        \cup {JsonSchema(t, Absent, Absent) : t \in ScalarTypes}
        \cup { JsonSchema("array", Absent, Absent),
               JsonSchema("object", Absent, Absent),
               JsonSchema("object", Absent, Declared(NoFields)),
               JsonSchema("", Absent, Declared("a" :> JsonSchema("string", Absent, Absent))) }

\* sample schemas nested n deep: arrays of and objects with one property of a
\* schema nested less deep, objects with two properties of base schemas
RECURSIVE SchemasOfDepth(_)
SchemasOfDepth(n) ==
    IF n = 0 THEN BaseSchemas
    ELSE LET inner == SchemasOfDepth(n - 1)
         IN inner
              \cup {JsonSchema("array", s, Absent) : s \in inner}
              \cup {JsonSchema("object", Absent, Declared("a" :> s)) : s \in inner}
              \cup {JsonSchema("object", Absent, Declared(("a" :> s) @@ ("b" :> t))) :
                        s \in BaseSchemas, t \in BaseSchemas}

SampleSchemas == SchemasOfDepth(MaxDepth)

\* the zod types the translation builds
ZAny == [kind |-> "any"]
ZString == [kind |-> "string"]
ZNumber == [kind |-> "number"]
ZInt == [kind |-> "int"]
ZBoolean == [kind |-> "boolean"]
ZArray(item) == [kind |-> "array", item |-> item]
ZObject(fields) == [kind |-> "object", fields |-> fields]
ZRecord == [kind |-> "record", value |-> ZAny]

\* a switch that takes an integer for a plain number (a faulty case)
ScalarCaseIntegerAsNumber(type) ==
    CASE type = "string" -> ZString
      [] type = "number" -> ZNumber
      [] type = "integer" -> ZNumber
      [] type = "boolean" -> ZBoolean
      [] OTHER -> ZAny

\* the scalar cases and the default of the switch
ScalarCase(type) ==
    CASE type = "string" -> ZString
      [] type = "number" -> ZNumber
      [] type = "integer" -> ZInt
      [] type = "boolean" -> ZBoolean
      [] OTHER -> ZAny

RECURSIVE mcpSchemaToZod(_)
mcpSchemaToZod(mcpSchema) ==
    IF mcpSchema.none \/ mcpSchema.type = "" THEN ZAny
    ELSE IF mcpSchema.type = "array"
    THEN ZArray(mcpSchemaToZod(IF mcpSchema.items = Absent
                               THEN JsonSchema("", Absent, Absent)
                               ELSE mcpSchema.items))
    ELSE IF mcpSchema.type = "object"
    THEN IF mcpSchema.properties # Absent
         THEN ZObject([key \in DOMAIN mcpSchema.properties.fields |->
                          mcpSchemaToZod(mcpSchema.properties.fields[key])])
         ELSE ZRecord
    ELSE ScalarCase(mcpSchema.type)

\* mcpSchemaToZod(mcpTool.inputSchema) is called
TranslateSchema ==
    /\ applied.fn = ""
    /\ \E mcpSchema \in SampleSchemas :
          applied' = [fn |-> "mcpSchemaToZod", input |-> mcpSchema,
                      output |-> mcpSchemaToZod(mcpSchema)]
    /\ UNCHANGED <<variant, booted, mcpConfig, init, mcpTools, skillTools, req,
                   configFiles, disk, run, interp, skillsDir, tempFiles, client>>

-----------------------------------------------------------------------------
(* The code blocks of a skill descriptor *)

MaxLines == 6        \* lines of a sample SKILL.md

\* a line of SKILL.md: a fence line is ``` followed by tag, any other line is
\* its text (sample text lines have no white space at their ends)
FenceLine(tag) == [fence |-> TRUE, tag |-> tag, text |-> ""]
TextLine(text) == [fence |-> FALSE, tag |-> <<>>, text |-> text]

LinePool ==
    { FenceLine(<<>>),
      FenceLine(<<"B", "a", "s", "h">>),
      FenceLine(<<"j", "s", "o", "n">>),
      FenceLine(<<"c", "+", "+">>),
      TextLine("ls"),
      TextLine("") }

Descriptors == UNION { [1..n -> LinePool] : n \in 0..MaxLines }

\* \w
WordChars ==
    {UpperChars[i] : i \in 1..26} \cup {LowerChars[i] : i \in 1..26}
        \cup {"0", "1", "2", "3", "4", "5", "6", "7", "8", "9", "_"}

\* the index of the first fence line at or after line i, 0 when there is none
RECURSIVE NextFence(_, _)
NextFence(lines, i) ==
    IF i > Len(lines) THEN 0
    ELSE IF lines[i].fence THEN i
    ELSE NextFence(lines, i + 1)

\* the texts of lines i..k joined by line breaks
RECURSIVE JoinTexts(_, _, _)
JoinTexts(lines, i, k) ==
    IF i > k THEN ""
    ELSE IF i = k THEN lines[i].text
    ELSE lines[i].text \o "\n" \o JoinTexts(lines, i + 1, k)

\* match[2].trim() for the lines between the fences at j and k: the blank
\* lines at both ends go
TrimmedBody(lines, j, k) ==
    LET filled == {i \in (j + 1)..(k - 1) : lines[i].text # ""}
    IN IF filled = {} THEN ""
       ELSE JoinTexts(lines, CHOOSE i \in filled : \A m \in filled : i <= m,
                      CHOOSE i \in filled : \A m \in filled : m <= i)

\* the successive matches of /```(\w+)?\n([\s\S]*?)```/g from line i on: a
\* fence line whose tag is made of word characters opens a match that the next
\* fence line, whatever its tag, closes; the search goes on after that line
RECURSIVE FencedBlocksFrom(_, _)
FencedBlocksFrom(lines, i) ==
    LET j == NextFence(lines, i)
        k == IF j = 0 THEN 0 ELSE NextFence(lines, j + 1)
    IN IF j = 0 \/ k = 0 THEN <<>>
       ELSE IF \E c \in 1..Len(lines[j].tag) : lines[j].tag[c] \notin WordChars
       THEN FencedBlocksFrom(lines, j + 1)
       ELSE <<RawBlock(lines[j].tag, TrimmedBody(lines, j, k))>>
                \o FencedBlocksFrom(lines, k + 1)

\* loadSkills reads one SKILL.md
LoadDescriptor ==
    /\ applied.fn = ""
    /\ \E lines \in Descriptors :
          applied' = [fn |-> "loadSkills", input |-> lines,
                      output |-> SkillInfoOf(FencedBlocksFrom(lines, 1))]
    /\ UNCHANGED <<variant, booted, mcpConfig, init, mcpTools, skillTools, req,
                   configFiles, disk, run, interp, skillsDir, tempFiles, client>>

-----------------------------------------------------------------------------
(* The chat client *)

MaxSubmits == 2      \* submits of the chat form in one behaviour

\* the first entry of the messages state
Greeting ==
    Msg("assistant", <<"Hello! I am your AI assistant. How can I help you today?">>)

\* the message the catch block of handleSubmit appends
ErrorMessage ==
    Msg("assistant", <<"Sorry, I encountered an error connecting to the agent. Make sure the backend server is running.">>)

\* the component after its first render; calls holds the invocations of
\* handleSubmit that are suspended at an await, with the body they posted
IdleClient ==
    [messages |-> <<Greeting>>, input |-> <<>>, isLoading |-> FALSE,
     calls |-> <<>>, submits |-> 0]

\* what the user types into the text field
SampleInputs == { <<>>, <<" ">>, <<"h", "i">>, <<" ", "g", "o">> }

\* how the promise of fetch settles: a response with an ok status, a
\* response with another status, a rejection
FetchOutcomes == {"ok", "notOk", "rejected"}

\* the body of an ok response: not JSON, null, or an object with or without
\* a `messages` array and a `text`
ReplyBody(kind, hasArray, messages, text) ==
    [kind |-> kind, hasArray |-> hasArray, messages |-> messages, text |-> text]

ReplyBodies ==
    { ReplyBody("invalid", FALSE, <<>>, <<>>),
      ReplyBody("null", FALSE, <<>>, <<>>),
      ReplyBody("object", TRUE, <<Msg("assistant", <<"4">>)>>, <<"4">>),
      ReplyBody("object", TRUE,
                <<Msg("assistant", <<"call">>), Msg("tool", <<"result">>),
                  Msg("assistant", <<"done">>)>>, <<"done">>),
      ReplyBody("object", TRUE, <<>>, <<>>),
      ReplyBody("object", FALSE, <<>>, <<"4">>),
      ReplyBody("object", FALSE, <<>>, <<>>) }

\* a button that is disabled on a blank input alone (a faulty guard)
DisabledWhenBlank(c) == Len(Trim(c.input)) = 0

\* disabled={!input.trim() || isLoading} of the submit button: the browser
\* does not submit a form through its disabled default button
Disabled(c) == Len(Trim(c.input)) = 0 \/ c.isLoading

\* onChange of the text field: setInput(e.target.value)
SetInput ==
    /\ \E text \in SampleInputs :
          /\ text # client.input
          /\ client' = [client EXCEPT !.input = text]
    /\ UNCHANGED <<variant, booted, mcpConfig, init, mcpTools, skillTools, req,
                 configFiles, disk, run, interp, skillsDir, tempFiles, applied>>

\* handleSubmit from the submit event to `await fetch(...)`
handleSubmit ==
    /\ client.submits < MaxSubmits
    /\ ~Disabled(client)
    /\ Len(Trim(client.input)) # 0
    /\ LET userMessage == Msg("user", client.input)
           newMessages == Append(client.messages, userMessage)
       IN client' = [client EXCEPT !.messages = newMessages,
                                   !.input = <<>>,
                                   !.isLoading = TRUE,
                                   !.calls = Append(@, [pc |-> "fetch", body |-> newMessages]),
                                   !.submits = @ + 1]
    /\ UNCHANGED <<variant, booted, mcpConfig, init, mcpTools, skillTools, req,
                 configFiles, disk, run, interp, skillsDir, tempFiles, applied>>

\* the suspended calls without the i-th
WithoutCall(calls, i) == SubSeq(calls, 1, i - 1) \o SubSeq(calls, i + 1, Len(calls))

\* the catch and finally blocks of handleSubmit
Failed(c, i) ==
    [c EXCEPT !.messages = Append(@, ErrorMessage),
              !.isLoading = FALSE,
              !.calls = WithoutCall(@, i)]

\* `await fetch(...)` settles: a rejection or a status that is not ok goes
\* to the catch block, an ok response to `await response.json()`
FetchSettles ==
    /\ \E i \in 1..Len(client.calls), outcome \in FetchOutcomes :
          /\ client.calls[i].pc = "fetch"
          /\ client' = IF outcome = "ok"
                       THEN [client EXCEPT !.calls[i].pc = "json"]
                       ELSE Failed(client, i)
    /\ UNCHANGED <<variant, booted, mcpConfig, init, mcpTools, skillTools, req,
                 configFiles, disk, run, interp, skillsDir, tempFiles, applied>>

\* `await response.json()` settles: the messages of the body are appended,
\* or its text as one assistant message, or nothing; a body that is not
\* JSON, or null, goes to the catch block
JsonSettles ==
    /\ \E i \in 1..Len(client.calls), data \in ReplyBodies :
          /\ client.calls[i].pc = "json"
          /\ client' =
                IF data.kind # "object"
                THEN Failed(client, i)
                ELSE [client EXCEPT
                        !.messages =
                            IF data.hasArray THEN @ \o data.messages
                            ELSE IF data.text # <<>>
                            THEN Append(@, Msg("assistant", data.text))
                            ELSE @,
                        !.isLoading = FALSE,
                        !.calls = WithoutCall(@, i)]
    /\ UNCHANGED <<variant, booted, mcpConfig, init, mcpTools, skillTools, req,
                 configFiles, disk, run, interp, skillsDir, tempFiles, applied>>

-----------------------------------------------------------------------------
(* Specification *)

\* the sets the actions draw their inputs from
InputSets ==
    << ConfigFilePairs, SkillsDirStates, SampleFiles, SampleSkillsDirs, SampleBodies,
       SampleTexts, SampleStepTexts, ErrorMessages, SampleExpressions, SamplePaths,
       SampleWritePaths, SampleReplies, SampleMcpToolNames, SampleSkills, AllSkills,
       ScriptIndexes, Worlds, SampleStrings, EnvFileContents, SampleEnvFilePaths,
       SampleSchemas, Descriptors, SampleInputs, FetchOutcomes, ReplyBodies >>

Init ==
    /\ \A i \in 1..Len(InputSets) : Cardinality(InputSets[i]) > 0
    /\ variant \in Variants
    /\ booted = FALSE
    /\ mcpConfig = NullConfig
    /\ init = IdleInit
    /\ mcpTools = NoTools
    /\ skillTools = NoTools
    /\ req = [r \in Requests |-> IdleReq]
    /\ configFiles = FilePair(AbsentFile, AbsentFile)
    /\ disk = SampleDisk
    /\ run = IdleRun
    /\ interp = IdleInterp
    /\ skillsDir = [exists |-> FALSE, dirs |-> {}]
    /\ tempFiles = <<>>
    /\ applied = IdleApplied
    /\ client = IdleClient

Next ==
    \/ Boot
    \/ ConnectReturns
    \/ ListReturns
    \/ \E r \in Requests :
          \/ Receive(r)
          \/ ModelCallsTools(r)
          \/ ToolsReturn(r)
          \/ ModelAnswers(r)
          \/ GenerateThrows(r)

Spec == Init /\ [][Next]_vars

\* start-up alone, on every configuration within the bounds
NextInit == BootAny \/ ConnectReturns \/ ListReturns

SpecInit == Init /\ [][NextInit]_vars

\* every model call and every tool execution returns
FairSpec ==
    /\ Spec
    /\ \A r \in Requests :
          /\ WF_vars(ModelCallsTools(r) \/ ModelAnswers(r) \/ GenerateThrows(r))
          /\ WF_vars(ToolsReturn(r) \/ GenerateThrows(r))

\* the tools' execute functions, called one after another on one file system
NextTools ==
    \/ CallCalculate
    \/ CallGetCurrentTime
    \/ CallReadFile
    \/ CallWriteFile
    \/ CallDeleteFile
    \/ CallMcpTool
    \/ RpcReturns
    \/ CallSkill
    \/ ScriptExits

SpecTools == Init /\ [][NextTools]_vars

\* the skill tool alone, on every SKILL.md within the bounds
NextSkill == CallAnySkill \/ ScriptExits \/ TimerFires

SpecSkill == Init /\ [][NextSkill]_vars

\* every script a skill tool has started exits
FairSpecSkill == SpecSkill /\ WF_vars(ScriptExits)

\* every started script exits and every timer that was set fires
FairSpecTimers == SpecSkill /\ WF_vars(ScriptExits) /\ WF_vars(TimerFires)

\* the interpolation alone
NextInterp == Interpolate \/ InterpolateAgain \/ InterpolateObject

SpecInterp == Init /\ [][NextInterp]_vars

\* loadEnvFile alone
NextEnvFile == LoadEnvFile

SpecEnvFile == Init /\ [][NextEnvFile]_vars

\* mcpSchemaToZod alone
NextSchema == TranslateSchema

SpecSchema == Init /\ [][NextSchema]_vars

\* the reading of skill descriptors alone
NextDescriptor == LoadDescriptor

SpecDescriptor == Init /\ [][NextDescriptor]_vars

\* the chat client alone
NextClient == SetInput \/ handleSubmit \/ FetchSettles \/ JsonSettles
SpecClient == Init /\ [][NextClient]_vars

\* every request of the client settles
FairSpecClient == SpecClient /\ WF_vars(FetchSettles) /\ WF_vars(JsonSettles)

-----------------------------------------------------------------------------
(* Properties *)

\* the request in slot r has been received by the handler
Received(r) == req[r].pc # "idle"

\* the request in slot r has been answered
Answered(r) == req[r].pc = "done"

\* C1: a request whose body has no `messages` field, or whose `messages` is
\* not an array, is answered 400 with body {error: "Messages array is
\* required"}; no generation step and no tool execution happens for it
C1_InvalidBodyRejected ==
    \A r \in Requests :
        (Received(r) /\ req[r].body.kind # "array") =>
            /\ Answered(r)
            /\ req[r].status = 400
            /\ req[r].resp = [error |-> "Messages array is required"]
            /\ req[r].step = 0
            /\ req[r].trace = <<>>
            /\ ~req[r].used

\* a request whose `messages` is a string has been answered 400
C1_Witness ==
    \E r \in Requests :
        Answered(r) /\ req[r].body.kind = "string" /\ req[r].status = 400

\* C2: a request whose `messages` is an array is answered either 200 with a
\* body carrying messages, text, toolCalls and hasToolCalls, or 500 with a
\* body {error}; no other status is produced
C2_ResponseShape ==
    \A r \in Requests :
        (Answered(r) /\ req[r].body.kind = "array") =>
            \/ /\ req[r].status = 200
               /\ DOMAIN req[r].resp = {"messages", "text", "toolCalls", "hasToolCalls"}
            \/ /\ req[r].status = 500
               /\ DOMAIN req[r].resp = {"error"}

\* C3: getTools() holds every name of the three sources, and for each name
\* the definition of the latest source (local, then MCP, then skills)
C3_MergeOrder ==
    LET names == BaseToolNames \cup DOMAIN mcpTools \cup DOMAIN skillTools
    IN /\ DOMAIN getTools = names
       /\ \A n \in names :
             getTools[n] = IF n \in DOMAIN skillTools THEN skillTools[n]
                           ELSE IF n \in DOMAIN mcpTools THEN mcpTools[n]
                           ELSE baseTools[n]

\* a request is served a registry in which a name that an MCP provider and a
\* skill both define carries the skill's definition
C3_Witness ==
    \E r \in Requests :
        \E n \in DOMAIN mcpTools \cap DOMAIN skillTools :
            /\ req[r].pc = "model"
            /\ n \in DOMAIN req[r].tools
            /\ req[r].tools[n].source = "skill"
            /\ mcpTools[n].source = "mcp"

\* C4 as stated: the registry is immutable once built, so the registry a
\* request was served with is the registry every other request is served with
C4_SameRegistryForEveryRequest ==
    \A r \in Requests :
        (Received(r) /\ req[r].body.kind = "array") => req[r].tools = getTools

\* the registry without provider tools
RegistryBeforePublication == GetToolsOf(variant, NoTools, skillTools)

\* C4 amended: the local and skill tools never change after start-up; the
\* provider tools are empty until initialization completes, are assigned
\* once at that moment and never change afterwards; a request is served
\* either with the registry without provider tools or with the final one
C4_PublishedOnce ==
    /\ [](/\ init.pc # "done" => mcpTools = NoTools
          /\ init.pc = "done" => mcpTools = init.acc
          /\ \A r \in Requests :
                (Received(r) /\ req[r].body.kind = "array") =>
                    req[r].tools \in {RegistryBeforePublication, getTools})
    /\ [][booted =>
            /\ skillTools' = skillTools
            /\ init.pc = "done" => getTools' = getTools
            /\ mcpTools' # mcpTools => (init.pc # "done" /\ init'.pc = "done")]_vars

\* initialization has completed while a request served before it, with the
\* smaller registry, is still known
C4_Witness ==
    \E r \in Requests :
        /\ Received(r)
        /\ req[r].body.kind = "array"
        /\ init.pc = "done"
        /\ req[r].tools # getTools

Max(S) == CHOOSE x \in S : \A y \in S : y <= x

\* the string content of the last message whose role is user ('' when there
\* is none or its content is not a string)
LastUserText(items) ==
    LET users == {i \in 1..Len(items) : items[i].role = "user"}
    IN IF users = {} THEN <<>>
       ELSE IF items[Max(users)].content.kind = "string"
            THEN items[Max(users)].content.chars
            ELSE <<>>

\* C5: tool use is forced exactly when the last user message of the request
\* matches the action-keyword pattern
C5_ForcedExactlyOnUserAction ==
    \A r \in Requests :
        (Received(r) /\ req[r].body.kind = "array") =>
            (req[r].toolChoice = "required"
                <=> MatchesPattern(variant, ToLowerCase(LastUserText(req[r].body.items))))

\* C6: a 200 response of an exchange that called a tool and ended without
\* text carries the synthesized notice; no 200 response of an exchange that
\* used tools has an empty text
C6_NoticeWhenNoFinalText ==
    \A r \in Requests :
        (Answered(r) /\ req[r].status = 200 /\ req[r].used) =>
            /\ req[r].resp.text # <<>>
            /\ Trim(req[r].text) = <<>> =>
                  req[r].resp.text \in {Notice(n) : n \in 1..(MaxCalls * MaxSteps)}

\* C7: when a tool was called at some step and the exchange ended with text,
\* the 200 response has hasToolCalls = true and the final text
C7_ToolUseReported ==
    \A r \in Requests :
        (/\ Answered(r) /\ req[r].status = 200 /\ req[r].used
         /\ req[r].calls = 0 /\ Trim(req[r].text) # <<>>) =>
            /\ "hasToolCalls" \in DOMAIN req[r].resp
            /\ req[r].resp.hasToolCalls
            /\ req[r].resp.text = req[r].text

\* C8: a generation performs at most 10 model steps, and when every model
\* call and tool execution returns, every received request is answered
C8_StepBounded ==
    /\ [](\A r \in Requests : req[r].step <= 10)
    /\ \A r \in Requests : (req[r].pc \in {"model", "tools"}) ~> Answered(r)

\* an exchange stopped by the step ceiling: ten steps, the last one with
\* tool calls, answered 200
C8_Witness ==
    \E r \in Requests :
        Answered(r) /\ req[r].status = 200 /\ req[r].step = 10 /\ req[r].calls > 0

ServerState == <<variant, booted, mcpConfig, init, mcpTools, skillTools>>

\* the messages an exchange has produced are its own: an assistant message
\* and a tool message per step, numbered from step 1
OwnTrace(q) ==
    \A i \in 1..Len(q.trace) :
        /\ q.trace[i].step = (i + 1) \div 2
        /\ q.trace[i].role = IF i % 2 = 1 THEN "assistant" ELSE "tool"

\* C9: a step of a request's handling changes that request only, leaving
\* the registry and every other server variable as they were; and a request
\* starts from nothing an earlier request left: its generation begins with
\* no message, no tool call, no text and no response
C9_NoSessionState ==
    /\ [][req' # req =>
            /\ ServerState' = ServerState
            /\ \A r1, r2 \in Requests :
                  (req'[r1] # req[r1] /\ req'[r2] # req[r2]) => r1 = r2]_vars
    /\ [](\A r \in Requests :
            /\ OwnTrace(req[r])
            /\ (req[r].pc = "model" /\ req[r].step = 1) =>
                  /\ req[r].trace = <<>>
                  /\ ~req[r].used
                  /\ req[r].calls = 0
                  /\ req[r].text = <<>>
                  /\ req[r].status = 0)

\* an exchange that used tools has been answered 200 and the provider tools
\* are still the ones initialization published
C9_Witness ==
    \E r \in Requests :
        /\ Answered(r) /\ req[r].status = 200 /\ req[r].used
        /\ init.pc = "done" /\ mcpTools = init.acc /\ mcpTools # NoTools

\* the tools of the providers whose listing succeeded, merged in order
RECURSIVE ToolsOfOutcomes(_)
ToolsOfOutcomes(out) ==
    IF out = <<>> THEN NoTools
    ELSE LET last == out[Len(out)]
             rest == ToolsOfOutcomes(SubSeq(out, 1, Len(out) - 1))
         IN IF last.result = "ok"
            THEN Spread(rest, ProviderTools(last.name, last.tools))
            ELSE rest

\* C10: when initialization has completed, every configured provider has
\* had its turn, in order; a remote provider was skipped; a provider that
\* was skipped or whose connection or listing failed contributes no tool;
\* and the published tools are those of the providers that succeeded
C10_FailuresSkipped ==
    init.pc = "done" =>
        /\ Len(init.out) = Len(mcpConfig.servers)
        /\ \A i \in 1..Len(init.out) :
              /\ init.out[i].name = mcpConfig.servers[i].name
              /\ (TransportType(mcpConfig.servers[i]) # "stdio")
                    <=> (init.out[i].result = "skipped")
              /\ init.out[i].result # "ok" => init.out[i].tools = <<>>
        /\ mcpTools = ToolsOfOutcomes(init.out)
        /\ \A n \in DOMAIN mcpTools :
              \E i \in 1..Len(init.out) :
                  /\ init.out[i].result = "ok"
                  /\ mcpTools[n].owner = init.out[i].name

\* initialization completed with the tools of a provider that came after a
\* provider that failed
C10_Witness ==
    /\ init.pc = "done"
    /\ \E i, j \in 1..Len(init.out) :
          /\ i < j
          /\ init.out[i].result \in {"connectFailed", "listFailed"}
          /\ init.out[j].result = "ok"
          /\ init.out[j].tools # <<>>
          /\ (init.out[j].name \o "_" \o init.out[j].tools[1]) \in DOMAIN mcpTools

\* the outcomes of the providers that connected and listed their catalog
Listed == {i \in 1..Len(init.out) : init.out[i].result = "ok"}

\* the registry name of tool t of the provider of outcome i
NameOf(i, t) == init.out[i].name \o "_" \o t

\* the names the listed catalogs declare, and how many tools they declare
DeclaredNames == UNION { {NameOf(i, t) : t \in Range(init.out[i].tools)} : i \in Listed }

RECURSIVE DeclaredCount(_)
DeclaredCount(k) ==
    IF k = 0 THEN 0
    ELSE DeclaredCount(k - 1)
            + (IF init.out[k].result = "ok" THEN Len(init.out[k].tools) ELSE 0)

\* C11 as stated: once initialization has completed, for every local-process
\* provider p that connected and listed, and every tool t of its catalog, the
\* merged registry holds an entry `p_t` that executes t on p, and the
\* providers contribute as many entries as they declared tools
C11_EntryPerProviderTool ==
    init.pc = "done" =>
        /\ \A i \in Listed : \A t \in Range(init.out[i].tools) :
              /\ NameOf(i, t) \in DOMAIN getTools
              /\ getTools[NameOf(i, t)] = ToolDef("mcp", init.out[i].name, t)
        /\ Cardinality({n \in DOMAIN getTools : getTools[n].source = "mcp"})
              = DeclaredCount(Len(init.out))

\* C11 amended: once initialization has completed, the provider tool set
\* holds an entry `p_t` for every tool t of every provider p that listed,
\* which executes t on p unless a provider listed later declared the same
\* name; the merged registry holds that entry under `p_t` unless a skill has
\* the same key, and then the skill's tool; the provider entries are as many
\* as the distinct names, at most the number of declared tools
C11_EntryPerProviderToolName ==
    init.pc = "done" =>
        /\ \A i \in Listed : \A t \in Range(init.out[i].tools) :
              LET n == NameOf(i, t)
              IN /\ n \in DOMAIN mcpTools
                 /\ n \in DOMAIN getTools
                 /\ (\A j \in Listed : j > i => n \notin {NameOf(j, u) : u \in Range(init.out[j].tools)})
                       => mcpTools[n] = ToolDef("mcp", init.out[i].name, t)
                 /\ getTools[n] = IF variant = "server" /\ n \in DOMAIN skillTools
                                  THEN skillTools[n]
                                  ELSE mcpTools[n]
        /\ DOMAIN mcpTools = DeclaredNames
        /\ Cardinality(DOMAIN mcpTools) <= DeclaredCount(Len(init.out))

\* initialization has completed with the catalogs of two providers, one of
\* whose names a skill has as well
C11_Witness ==
    /\ init.pc = "done"
    /\ Cardinality(Listed) = 2
    /\ Cardinality(DOMAIN mcpTools) = 3
    /\ DOMAIN mcpTools \cap DOMAIN skillTools # {}

\* C12: an execution of a provider tool returns and never throws; the value
\* has success and toolName, with `result` when success is true (the
\* provider replied without isError) and `error` when it is false (the
\* provider replied isError, or the call raised)
C12_UniformMcpResult ==
    (run.tool = "mcp" /\ run.pc = "done") =>
        /\ ~run.threw
        /\ {"success", "toolName"} \subseteq DOMAIN run.value
        /\ run.value.toolName = run.args.name
        /\ run.value.success <=> (~run.args.reply.raised /\ ~run.args.reply.isError)
        /\ IF run.value.success
           THEN "result" \in DOMAIN run.value
           ELSE "error" \in DOMAIN run.value

\* the entries of a skill run that report a failed script
FailedEntries(results) == {k \in 1..Len(results) : ~results[k].success}

\* C13: no execution of a local tool or of a skill tool throws; an error
\* raised inside the tool comes back as a value with an `error` field, and a
\* failed script as an entry with its error
C13_ToolErrorsReturned ==
    (run.pc = "done" /\ run.tool \in BaseToolNames \cup {"skill"}) =>
        /\ ~run.threw
        /\ run.caught => "error" \in DOMAIN run.value
        /\ \A k \in FailedEntries(run.results) : run.results[k].error # ""

\* an fs error raised inside deleteFile has come back as an error result
C13_Witness ==
    /\ run.pc = "done"
    /\ run.tool = "deleteFile"
    /\ run.caught
    /\ ~run.threw
    /\ run.value = [error |-> "EACCES: permission denied"]

\* C14: a step of the delete-file tool on a path that resolves outside the
\* project root returns an error and removes nothing; whatever it removes is
\* a regular file inside the project root; an error result leaves the file
\* system as it was
C14_DeleteConfined ==
    [][(run'.tool = "deleteFile" /\ run' # run) =>
          /\ ~InsideDir(Resolve(FilePathOf(run'.args)), PROJECT_ROOT) =>
                ("error" \in DOMAIN run'.value /\ disk' = disk)
          /\ \A q \in DOMAIN disk \ DOMAIN disk' :
                disk[q] = "file" /\ InsideDir(q, PROJECT_ROOT)
          /\ "error" \in DOMAIN run'.value => disk' = disk]_vars

\* the run in `run` is a skill run asked to execute scripts
SkillRunExecuting ==
    /\ run.tool = "skill"
    /\ run.args.executeScript
    /\ run.args.skill.hasExecutableScripts

\* C15: a skill run with executeScript = true and scriptIndex = i on a skill
\* with executable snippets returns one execution result, with index i and
\* the language of block i, when block i exists and is executable; else it
\* runs nothing and lists no execution result
C15_SingleScript ==
    (SkillRunExecuting /\ run.pc = "done" /\ run.args.scriptIndex.defined) =>
        LET i == run.args.scriptIndex.value
            blocks == run.args.skill.codeBlocks
        IN IF i + 1 \in 1..Len(blocks) /\ Executable(blocks[i + 1])
           THEN /\ Len(run.value.executionResults) = 1
                /\ run.value.scriptsExecuted = 1
                /\ run.value.executionResults[1].index = i
                /\ run.value.executionResults[1].language = blocks[i + 1].language
                /\ blocks[i + 1].index = i
                /\ run.log = <<Started(i), Ended(i)>>
           ELSE /\ run.value.executionResults = <<>>
                /\ run.value.scriptsExecuted = 0
                /\ run.log = <<>>

\* the second block of a skill, a Python one, was run alone
C15_Witness ==
    /\ SkillRunExecuting
    /\ run.pc = "done"
    /\ run.args.scriptIndex = Index(1)
    /\ Len(run.value.executionResults) = 1
    /\ run.value.executionResults[1].index = 1
    /\ run.value.executionResults[1].language = <<"p", "y", "t", "h", "o", "n">>

\* C16: in a batch run (executeScript = true, no scriptIndex) the executable
\* snippets are started one at a time in source order, each after the one
\* before it has ended; the results are listed in source order; a failed
\* snippet is reported in its own entry and the later ones are still run;
\* and, every started script exiting, the batch ends
C16_BatchSequential ==
    /\ [](( SkillRunExecuting /\ ~run.args.scriptIndex.defined
            /\ run.pc \in {"script", "done"} ) =>
            LET scripts == SelectSeq(run.args.skill.codeBlocks, Executable)
            IN /\ \A k \in 1..Len(run.log) :
                     run.log[k] = IF k % 2 = 1
                                  THEN Started(scripts[(k + 1) \div 2].index)
                                  ELSE Ended(scripts[k \div 2].index)
               /\ Len(run.log) - 2 * Len(run.results) = (IF run.pc = "script" THEN 1 ELSE 0)
               /\ \A k \in 1..Len(run.results) :
                     /\ run.results[k].index = scripts[k].index
                     /\ k > 1 => run.results[k - 1].index < run.results[k].index
                     /\ ~run.results[k].success => run.results[k].error # ""
               /\ run.pc = "done" =>
                     /\ Len(run.results) = Len(scripts)
                     /\ run.value.executionResults = run.results
                     /\ run.value.scriptsExecuted = Len(scripts))
    /\ (run.pc = "script") ~> (run.pc = "done")

\* a batch of two snippets has ended, the first having failed and the second
\* having run all the same
C16_Witness ==
    /\ SkillRunExecuting
    /\ ~run.args.scriptIndex.defined
    /\ run.pc = "done"
    /\ Len(run.results) >= 2
    /\ ~run.results[1].success
    /\ run.results[2].success

\* C17: the model is asked for step n+1 only when the tool executions of
\* step n have returned and their results are appended; in the messages of
\* an exchange, a tool-call message is followed by its tool-result message
\* before any message of a later step
C17_DecisionCycles ==
    /\ [][\A r \in Requests :
            (req[r].step >= 1 /\ req'[r].step = req[r].step + 1) =>
                /\ req[r].pc = "tools"
                /\ req'[r].pc = "model"
                /\ req'[r].trace = Append(req[r].trace, ToolMsg(req[r].step))]_vars
    /\ [](\A r \in Requests :
            LET trace == req[r].trace
            IN /\ \A i, j \in 1..Len(trace) :
                     (i < j /\ trace[i].role = "assistant" /\ trace[i].step < trace[j].step) =>
                         /\ trace[i + 1] = ToolMsg(trace[i].step)
                         /\ i + 1 < j
               /\ \A i \in 1..Len(trace) :
                     trace[i].role = "tool" => (i > 1 /\ trace[i - 1] = AssistantMsg(trace[i].step))
               /\ (Answered(r) /\ req[r].status = 200) => req[r].resp.messages = trace)

\* an exchange of two steps has been answered: the call, its result, the answer
C17_Witness ==
    \E r \in Requests :
        /\ Answered(r)
        /\ req[r].status = 200
        /\ req[r].resp.messages = <<AssistantMsg(1), ToolMsg(1), AssistantMsg(2)>>

Readable(file) == file.exists /\ file.valid

EnvTokenAt(s, i) ==
    /\ i + Len(EnvPrefix) - 1 <= Len(s)
    /\ SubSeq(s, i, i + Len(EnvPrefix) - 1) = EnvPrefix
    /\ \E j \in (i + Len(EnvPrefix) + 1)..Len(s) :
          /\ s[j] = "}"
          /\ \A k \in (i + Len(EnvPrefix))..(j - 1) : s[k] # "}"

\* s holds the literal token from index i on
LiteralAt(s, i, token) ==
    i + Len(token) - 1 <= Len(s) /\ SubSeq(s, i, i + Len(token) - 1) = token

\* the four documented token kinds, and the two the code takes besides
DocumentedLiteralTokens ==
    {UserHomeToken, WorkspaceFolderToken, WorkspaceFolderBasenameToken}
FurtherLiteralTokens == {PathSeparatorToken, SlashToken}

HasDocumentedToken(s) ==
    \E i \in 1..Len(s) :
        EnvTokenAt(s, i) \/ \E token \in DocumentedLiteralTokens : LiteralAt(s, i, token)

HasFurtherToken(s) ==
    \E i \in 1..Len(s) : \E token \in FurtherLiteralTokens : LiteralAt(s, i, token)

\* s holds a token that interpolateConfig recognizes
HasToken(s) == HasDocumentedToken(s) \/ HasFurtherToken(s)

\* a has the shape of b: the same kinds, keys, array lengths and non-string
\* values, strings standing where strings stood
RECURSIVE SameShape(_, _)
SameShape(a, b) ==
    /\ a.kind = b.kind
    /\ a.keys = b.keys
    /\ Len(a.items) = Len(b.items)
    /\ a.kind # "string" => a.chars = b.chars
    /\ \A i \in 1..Len(a.items) : SameShape(a.items[i], b.items[i])

\* C19: on a string that holds no recognized token, interpolateConfig is the
\* identity, and so is a second application; interpolateConfigObject keeps
\* the keys, the array lengths and the non-string values, and is the
\* identity on an object whose strings hold no token
C19_IdentityWithoutTokens ==
    /\ (interp.pc \in {"once", "twice"} /\ ~HasToken(interp.input)) =>
          interp.output = interp.input
    /\ (interp.pc = "twice" /\ ~HasToken(interp.input)) =>
          (interp.again = interp.output /\ interp.again = interp.input)
    /\ interp.pc = "object" =>
          /\ SameShape(interp.objOutput, interp.obj)
          /\ interp.objOutput.items[3].keys = <<UserHomeToken>>
          /\ interp.objOutput.items[1].chars = interpolateConfig(interp.input, interp.world)

\* a string of token fragments that is no token, `${${env:}`, has been
\* interpolated twice
C19_Witness ==
    /\ interp.pc = "twice"
    /\ interp.input = <<"$", "{">> \o EnvPrefix \o <<"}">>
    /\ ~HasToken(interp.input)
    /\ interp.again = interp.input

\* the value of the documented token at the head of s and the index after it
TokenAtHead(s, world) ==
    IF EnvTokenAt(s, 1)
    THEN LET close == CHOOSE j \in (Len(EnvPrefix) + 2)..Len(s) :
                         /\ s[j] = "}"
                         /\ \A k \in (Len(EnvPrefix) + 1)..(j - 1) : s[k] # "}"
             name == SubSeq(s, Len(EnvPrefix) + 1, close - 1)
         IN [value |-> IF name \in DOMAIN world.env THEN world.env[name] ELSE <<>>,
             next |-> close + 1]
    ELSE IF LiteralAt(s, 1, UserHomeToken)
    THEN [value |-> world.home, next |-> Len(UserHomeToken) + 1]
    ELSE IF LiteralAt(s, 1, WorkspaceFolderToken)
    THEN [value |-> world.workspaceFolder, next |-> Len(WorkspaceFolderToken) + 1]
    ELSE IF LiteralAt(s, 1, WorkspaceFolderBasenameToken)
    THEN [value |-> Basename(world.workspaceFolder),
          next |-> Len(WorkspaceFolderBasenameToken) + 1]
    ELSE [value |-> <<>>, next |-> 0]

\* s with every occurrence of a documented token replaced by its value
RECURSIVE Substituted(_, _)
Substituted(s, world) ==
    IF s = <<>> THEN <<>>
    ELSE LET token == TokenAtHead(s, world)
         IN IF token.next > 0
            THEN token.value \o Substituted(SubSeq(s, token.next, Len(s)), world)
            ELSE <<Head(s)>> \o Substituted(Tail(s), world)

\* C20: on a string that combines the four documented tokens with literal
\* text, the output is the string with every token occurrence replaced by
\* its value (nothing for an unset variable), and holds no documented token
C20_TokensResolved ==
    (interp.pc \in {"once", "twice"} /\ ~HasFurtherToken(interp.input)) =>
        /\ interp.output = Substituted(interp.input, interp.world)
        /\ ~HasDocumentedToken(interp.output)

-----------------------------------------------------------------------------
(* loadEnvFile *)

\* the lines of an environment file, trimmed
TrimmedLines(content) ==
    LET lines == SplitOn(content, "\n", <<>>)
    IN [i \in 1..Len(lines) |-> Trim(lines[i])]

\* the first `=` of a line
FirstEquals(line) ==
    CHOOSE i \in 1..Len(line) : line[i] = "=" /\ \A j \in 1..(i - 1) : line[j] # "="

\* a trimmed line that is not blank, is no comment and has the form KEY=value
IsAssignment(line) ==
    /\ line # <<>>
    /\ line[1] \notin {"#", "="}
    /\ \E i \in 1..Len(line) : line[i] = "="

KeyOf(line) == Trim(SubSeq(line, 1, FirstEquals(line) - 1))
ValueOf(line) == Trim(SubSeq(line, FirstEquals(line) + 1, Len(line)))

\* a value without the pair of quotes that surrounds it
Unquoted(value) ==
    IF Len(value) >= 2 /\ value[1] \in QuoteChars /\ value[Len(value)] = value[1]
    THEN SubSeq(value, 2, Len(value) - 1)
    ELSE value

\* a value without a quote character at its start and without one at its end
WithoutEndQuotes(value) ==
    LET lead == IF Len(value) >= 1 /\ value[1] \in QuoteChars THEN 1 ELSE 0
        trail == IF Len(value) > lead /\ value[Len(value)] \in QuoteChars THEN 1 ELSE 0
    IN SubSeq(value, 1 + lead, Len(value) - trail)

\* what is at the path an application of loadEnvFile was given
EnvFileKind ==
    LET p == FilePathOf(applied.input.envFilePath)
    IN IF existsSync(disk, p) THEN Kind(disk, Locate(disk, p).path) ELSE "none"

\* the assignment lines of the file an application of loadEnvFile was given
AssignmentLines ==
    LET lines == TrimmedLines(applied.input.content)
    IN {i \in 1..Len(lines) : IsAssignment(lines[i])}

\* C21 (as stated): loadEnvFile returns an empty map when the file is missing;
\* otherwise it returns a map with exactly one entry per trimmed line that is
\* not blank, is no comment and has the form KEY=value, the entry of such a
\* line being its trimmed key with its value stripped of surrounding quotes.
C21_OneEntryPerLine ==
    applied.fn = "loadEnvFile" =>
        LET out == applied.output
            lines == TrimmedLines(applied.input.content)
        IN /\ ~out.threw
           /\ IF EnvFileKind = "none"
              THEN out.value = NoEnv
              ELSE /\ Cardinality(DOMAIN out.value) = Cardinality(AssignmentLines)
                   /\ \A i \in AssignmentLines :
                         /\ KeyOf(lines[i]) \in DOMAIN out.value
                         /\ out.value[KeyOf(lines[i])] = Unquoted(ValueOf(lines[i]))

\* C21 (amended): loadEnvFile returns an empty map when the file is missing and
\* raises when the path exists but cannot be read as a file; otherwise the map
\* has one entry per distinct trimmed key of the assignment lines, holding the
\* trimmed value of the last line with that key, without one quote character
\* at its start and one at its end if there are such; blank lines, comment
\* lines and lines that are no assignment contribute nothing.
C21_LastEntryPerKey ==
    applied.fn = "loadEnvFile" =>
        LET out == applied.output
            lines == TrimmedLines(applied.input.content)
            LastWith(k) == CHOOSE i \in AssignmentLines :
                              /\ KeyOf(lines[i]) = k
                              /\ \A j \in AssignmentLines : KeyOf(lines[j]) = k => j <= i
        IN CASE EnvFileKind = "none" -> ~out.threw /\ out.value = NoEnv
             [] EnvFileKind = "dir" -> out.threw
             [] OTHER ->
                   \/ out.threw /\ out.message \in FsErrors
                   \/ /\ ~out.threw
                      /\ DOMAIN out.value = {KeyOf(lines[i]) : i \in AssignmentLines}
                      /\ \A k \in DOMAIN out.value :
                            out.value[k] = WithoutEndQuotes(ValueOf(lines[LastWith(k)]))

\* a file was loaded in which two lines assign the same key, the last one
\* with a quoted value, between a comment and nothing else
C21_Witness ==
    /\ applied.fn = "loadEnvFile"
    /\ ~applied.output.threw
    /\ EnvFileKind = "file"
    /\ applied.input.content
         = JoinLines(<< <<"#", " ", "c">>, <<"A", "=", "1">>,
                        <<" ", "A", " ", "=", " ", "\"", "1", "\"", " ">> >>)
    /\ applied.output.value = (<<"A">> :> <<"1">>)

-----------------------------------------------------------------------------
(* mcpSchemaToZod *)

RecognizedTypes == {"string", "number", "integer", "boolean", "array", "object"}

ScalarVariant(type) ==
    CASE type = "string" -> ZString
      [] type = "number" -> ZNumber
      [] type = "integer" -> ZInt
      [] type = "boolean" -> ZBoolean

\* z is the translation of schema s as the claim describes it: an object
\* schema always gives an object of exactly its declared properties
RECURSIVE TranslatedAsStated(_, _)
TranslatedAsStated(s, z) ==
    IF s.none \/ s.type \notin RecognizedTypes THEN z = ZAny
    ELSE IF s.type = "array"
    THEN /\ z.kind = "array"
         /\ TranslatedAsStated(IF s.items = Absent THEN NoSchema ELSE s.items, z.item)
    ELSE IF s.type = "object"
    THEN LET declared == IF s.properties = Absent THEN NoFields ELSE s.properties.fields
         IN /\ z.kind = "object"
            /\ DOMAIN z.fields = DOMAIN declared
            /\ \A k \in DOMAIN declared : TranslatedAsStated(declared[k], z.fields[k])
    ELSE z = ScalarVariant(s.type)

\* z is the translation of schema s, an object schema without `properties`
\* giving a record of unconstrained values
RECURSIVE Translated(_, _)
Translated(s, z) ==
    IF s.none \/ s.type \notin RecognizedTypes THEN z = ZAny
    ELSE IF s.type = "array"
    THEN /\ z.kind = "array"
         /\ Translated(IF s.items = Absent THEN NoSchema ELSE s.items, z.item)
    ELSE IF s.type = "object"
    THEN IF s.properties = Absent
         THEN z = ZRecord
         ELSE /\ z.kind = "object"
              /\ DOMAIN z.fields = DOMAIN s.properties.fields
              /\ \A k \in DOMAIN z.fields : Translated(s.properties.fields[k], z.fields[k])
    ELSE z = ScalarVariant(s.type)

\* C22 (as stated): the translation of a finite schema ends with a value; the
\* four scalar types give the matching scalar variant, an array the array of
\* its translated items, an object the object of exactly its declared
\* properties, each translated, and a missing schema, a missing type or an
\* unrecognized type the unconstrained variant.
C22_SchemaTranslation ==
    applied.fn = "mcpSchemaToZod" => TranslatedAsStated(applied.input, applied.output)

\* C22 (amended): as stated, except that an object schema that declares no
\* `properties` gives a record that maps any key to an unconstrained value, and
\* an array schema without `items` gives an array of unconstrained values.
C22_SchemaTranslationWithRecords ==
    applied.fn = "mcpSchemaToZod" => Translated(applied.input, applied.output)

\* an object schema was translated whose property is an array of integers
C22_Witness ==
    /\ applied.fn = "mcpSchemaToZod"
    /\ applied.input = JsonSchema("object", Absent,
                           Declared("a" :> JsonSchema("array",
                                                      JsonSchema("integer", Absent, Absent),
                                                      Absent)))
    /\ applied.output = ZObject("a" :> ZArray(ZInt))

-----------------------------------------------------------------------------
(* The code blocks loadSkills records *)

\* C23: a loaded skill has hasExecutableScripts exactly when one of its
\* recorded code blocks has a language of the allow-list or no language tag; a
\* descriptor without fenced code blocks has hasExecutableScripts false and no
\* recorded code block.
C23_ExecutableFlag ==
    applied.fn = "loadSkills" =>
        LET skill == applied.output
        IN /\ skill.hasExecutableScripts
                <=> \E i \in 1..Len(skill.codeBlocks) :
                       \/ skill.codeBlocks[i].language \in ExecutableLanguages
                       \/ skill.codeBlocks[i].language = <<>>
           /\ (\A i \in 1..Len(applied.input) : ~applied.input[i].fence)
                => ~skill.hasExecutableScripts /\ skill.codeBlocks = <<>>

\* a descriptor was read whose blocks are a json block and a block without
\* tag: it has executable scripts
C23_Witness ==
    /\ applied.fn = "loadSkills"
    /\ applied.input = << FenceLine(<<"j", "s", "o", "n">>), TextLine("ls"), FenceLine(<<>>),
                          FenceLine(<<>>), TextLine("ls"), FenceLine(<<>>) >>
    /\ Len(applied.output.codeBlocks) = 2
    /\ applied.output.codeBlocks[2].language = <<>>
    /\ applied.output.hasExecutableScripts


\* the fence lines of a descriptor, in source order
RECURSIVE FencesFrom(_, _)
FencesFrom(lines, i) ==
    LET j == NextFence(lines, i)
    IN IF j = 0 THEN <<>> ELSE <<j>> \o FencesFrom(lines, j + 1)

\* whether the p-th fence line opens a block: it does not close one, another
\* fence line follows it, and, where only word tags count, its tag is a word
RECURSIVE Opens(_, _, _, _)
Opens(lines, fences, p, wordTagsOnly) ==
    /\ p < Len(fences)
    /\ ~(p > 1 /\ Opens(lines, fences, p - 1, wordTagsOnly))
    /\ wordTagsOnly => \A c \in 1..Len(lines[fences[p]].tag) :
                          lines[fences[p]].tag[c] \in WordChars

\* the blocks of a descriptor in source order: the language tag as written and
\* the trimmed body
BlocksOf(lines, wordTagsOnly) ==
    LET fences == FencesFrom(lines, 1)
        opening == SelectSeq([p \in 1..Len(fences) |-> p],
                             LAMBDA p : Opens(lines, fences, p, wordTagsOnly))
    IN [n \in 1..Len(opening) |->
          [language |-> lines[fences[opening[n]]].tag,
           code |-> TrimmedBody(lines, fences[opening[n]], fences[opening[n] + 1])]]

\* C24 (as stated): the recorded list holds every fenced code block of the
\* descriptor, in source order, with its declared language tag and its trimmed
\* body, and the block at list position k has index k.
C24_EveryBlockRecorded ==
    applied.fn = "loadSkills" =>
        LET blocks == BlocksOf(applied.input, FALSE)
            codeBlocks == applied.output.codeBlocks
        IN /\ Len(codeBlocks) = Len(blocks)
           /\ \A n \in 1..Len(codeBlocks) :
                 /\ codeBlocks[n].language = blocks[n].language
                 /\ codeBlocks[n].code = blocks[n].code
                 /\ codeBlocks[n].index = n - 1

\* C24 (amended): the recorded list holds, in source order, the fenced code
\* blocks whose opening fence carries no tag or a tag of word characters and
\* whose trimmed body is not empty, each with its tag in lower case and its
\* trimmed body; a block with an empty body is not recorded; the block at list
\* position k has index k, so codeBlocks[scriptIndex] carries index scriptIndex.
C24_FilledBlocksRecorded ==
    applied.fn = "loadSkills" =>
        LET blocks == SelectSeq(BlocksOf(applied.input, TRUE), LAMBDA b : b.code # "")
            codeBlocks == applied.output.codeBlocks
        IN /\ Len(codeBlocks) = Len(blocks)
           /\ \A n \in 1..Len(codeBlocks) :
                 /\ codeBlocks[n].language = ToLowerCase(blocks[n].language)
                 /\ codeBlocks[n].code = blocks[n].code
                 /\ codeBlocks[n].index = n - 1

\* a descriptor was read that holds an empty block between two filled ones,
\* the second tagged `Bash`: two blocks are recorded, the second with index 1
C24_Witness ==
    /\ applied.fn = "loadSkills"
    /\ applied.input = << FenceLine(<<>>), TextLine("ls"), FenceLine(<<>>),
                          FenceLine(<<"B", "a", "s", "h">>), TextLine("ls"),
                          FenceLine(<<>>) >>
    /\ Len(applied.output.codeBlocks) = 2
    /\ applied.output.codeBlocks[2].language = <<"b", "a", "s", "h">>
    /\ applied.output.codeBlocks[2].index = 1


-----------------------------------------------------------------------------
(* Temporary files of skill scripts *)

\* what holds of every temporary file at every moment: only the interpreted
\* languages have one, and no callback of a clean-up timer lets an error escape
TempFilesQuiet ==
    \A i \in 1..Len(tempFiles) :
        /\ tempFiles[i].language \in TempFileLanguages
        /\ ~tempFiles[i].uncaught

\* C25 (as stated): every temporary file of a snippet run has its deletion
\* scheduled when it is created and is eventually deleted, whether the snippet
\* succeeds or fails; a failing deletion raises no error; shell snippets
\* create no temporary file.
C25_EventuallyDeleted ==
    /\ [](TempFilesQuiet /\ \A i \in 1..Len(tempFiles) : tempFiles[i].timer # "none")
    /\ \A i \in 1..MaxTempFiles :
          (Len(tempFiles) >= i) ~> (Len(tempFiles) >= i /\ ~tempFiles[i].exists)

\* C25 (amended): a temporary file exists only for the interpreted languages;
\* the file whose write succeeded has its clean-up timer set in the same step,
\* the timer eventually fires, once, whether the snippet succeeds or fails,
\* and the file is gone exactly when the unlink of that callback succeeded; a
\* failing unlink raises nothing and leaves the file; the file left by a
\* failing write has no timer and is never removed.
C25_DeletionAttempted ==
    /\ [](/\ TempFilesQuiet
          /\ \A i \in 1..Len(tempFiles) :
                /\ tempFiles[i].written <=> tempFiles[i].timer # "none"
                /\ ~tempFiles[i].exists => tempFiles[i].timer = "fired"
                /\ ~tempFiles[i].written => tempFiles[i].process = "none")
    /\ [][\A i \in 1..Len(tempFiles) :
            /\ Len(tempFiles') >= i
            /\ tempFiles[i].timer \in {"fired", "none"}
                  => /\ tempFiles'[i].timer = tempFiles[i].timer
                     /\ tempFiles'[i].exists = tempFiles[i].exists
            /\ tempFiles'[i].exists # tempFiles[i].exists
                  => tempFiles[i].timer = "pending" /\ tempFiles'[i].timer = "fired"]_vars
    /\ \A i \in 1..MaxTempFiles :
          (Len(tempFiles) >= i /\ tempFiles[i].written)
              ~> (Len(tempFiles) >= i /\ tempFiles[i].timer = "fired")

\* the file of a failed snippet was removed, the file of a successful one
\* stayed because its unlink failed, and a failed write left a file behind
C25_Witness ==
    /\ \E i \in 1..Len(tempFiles) :
          /\ tempFiles[i].process = "failed"
          /\ tempFiles[i].timer = "fired"
          /\ ~tempFiles[i].exists
    /\ \E i \in 1..Len(tempFiles) :
          /\ tempFiles[i].process = "succeeded"
          /\ tempFiles[i].timer = "fired"
          /\ tempFiles[i].exists
    /\ \E i \in 1..Len(tempFiles) : ~tempFiles[i].written

\* C28: the temporary file of a snippet is never deleted while the
\* interpreter process that runs it has not finished.
C28_DeletedAfterRun ==
    [][\A i \in 1..Len(tempFiles) :
          (tempFiles[i].exists /\ ~tempFiles'[i].exists)
              => tempFiles[i].process # "running"]_vars


-----------------------------------------------------------------------------
(* Start-up failures *)

\* the five local tools are in the registry, as local tools
LocalToolsIn(tools) ==
    \A n \in BaseToolNames : n \in DOMAIN tools /\ tools[n].source = "base"

\* what C26 says of every source but the configuration file: the server
\* listens after the start-up step whatever was found; a missing skills
\* directory gives no skill tool; a descriptor that is missing or cannot be
\* read costs that skill alone; a provider that was skipped or failed has no
\* tool in the published set; every request is served with the local tools
DiscoveryDegrades ==
    /\ [](booted =>
            /\ LocalToolsIn(getTools)
            /\ ~skillsDir.exists => skillTools = NoTools
            /\ variant = "server" =>
                  DOMAIN skillTools =
                      {"skill_" \o d.dir : d \in {x \in skillsDir.dirs : x.file = "ok"}}
            /\ \A i \in 1..Len(init.out) :
                  init.out[i].result # "ok" =>
                      \A n \in DOMAIN mcpTools : mcpTools[n].owner # init.out[i].name
            /\ \A r \in Requests :
                  (Received(r) /\ req[r].body.kind = "array") => LocalToolsIn(req[r].tools))
    /\ [][~booted => booted']_vars

\* the file the loader turns to first is not valid JSON
FirstFileInvalid ==
    \/ configFiles.project.exists /\ ~configFiles.project.valid
    \/ ~configFiles.project.exists /\ configFiles.global.exists /\ ~configFiles.global.valid

-----------------------------------------------------------------------------
(* Publication of the provider tools *)

\* the provider tools a registry holds
ProviderKeys(tools) == {n \in DOMAIN tools : tools[n].source = "mcp"}

\* C27: the provider tool set is assigned once, when the last configured
\* provider has been processed, and the server takes requests meanwhile: a
\* request received before the assignment is served with exactly the local
\* and skill tools, a request received after it with the complete provider
\* set as well, and no request is served with the tools of some of the
\* providers that loaded and not of the others. (The registry a request sees
\* is the merge of C3: a skill hides the provider tool of the same key.)
C27_PublishedAtOnce ==
    /\ [][/\ mcpTools' # mcpTools =>
               /\ mcpTools = NoTools
               /\ init.pc # "done" /\ init'.pc = "done"
               /\ Len(init'.out) = Len(mcpConfig'.servers)
               /\ mcpTools' = ToolsOfOutcomes(init'.out)
          /\ \A r \in Requests :
               (req[r].pc \in {"idle", "done"} /\ req'[r].pc = "model") =>
                   /\ init.pc # "done"
                         => req'[r].tools = GetToolsOf(variant, NoTools, skillTools)
                   /\ init.pc = "done"
                         => req'[r].tools =
                               GetToolsOf(variant, ToolsOfOutcomes(init.out), skillTools)]_vars
    /\ [](\A r \in Requests :
            (Received(r) /\ req[r].body.kind = "array") =>
                \/ req[r].tools = GetToolsOf(variant, NoTools, skillTools)
                \/ /\ init.pc = "done"
                   /\ req[r].tools =
                         GetToolsOf(variant, ToolsOfOutcomes(init.out), skillTools))

\* with two providers that both listed tools, one request was served before
\* the assignment, with no provider tool, while the first provider had
\* already listed, and the assignment has now been made
C27_Witness ==
    /\ init.pc = "done"
    /\ Cardinality({i \in 1..Len(init.out) :
                       init.out[i].result = "ok" /\ init.out[i].tools # <<>>}) = 2
    /\ DOMAIN mcpTools = DOMAIN ToolsOfOutcomes(init.out)
    /\ \E r \in Requests :
          /\ req[r].pc = "model"
          /\ ProviderKeys(req[r].tools) = {}


-----------------------------------------------------------------------------
(* Forced tool use *)

\* the exchange of slot r was forced and has been answered with a 200
ForcedAnswered(r) ==
    /\ req[r].toolChoice = "required"
    /\ req[r].pc = "done"
    /\ req[r].status = 200

\* every step of the exchange of slot r called tools, up to the ceiling
EveryStepCalledTools(r) ==
    /\ req[r].step = MaxSteps
    /\ req[r].calls > 0
    /\ Len(req[r].trace) = MaxSteps + MaxSteps
    /\ \A i \in 1..Len(req[r].trace) :
          req[r].trace[i] = IF i % 2 = 1 THEN AssistantMsg((i + 1) \div 2)
                            ELSE ToolMsg(i \div 2)

\* C29 (as stated): when tool use is forced it is forced on every step: no
\* step ends the exchange with final text, the exchange stops only at the
\* ceiling of ten steps, and the text of the response is the synthesized
\* notice, not text the model wrote.
C29_ForcedEndsWithNotice ==
    \A r \in Requests :
        (variant = "server" /\ ForcedAnswered(r)) =>
            /\ EveryStepCalledTools(r)
            /\ req[r].resp.text = Notice(req[r].calls)

\* C29 (amended): when tool use is forced it is forced on every step: no step
\* ends the exchange with final text, and the generation returns only at the
\* ceiling of ten steps (or fails, which is answered with a 500); the text of
\* the response is the text the model wrote beside the tool calls of the
\* tenth step when that is not blank, and the synthesized notice otherwise
\* (the server of the second file sends the text of the tenth step as it is).
C29_ForcedEndsAtCeiling ==
    /\ [](\A r \in Requests :
            ForcedAnswered(r) =>
                /\ EveryStepCalledTools(r)
                /\ req[r].resp.text =
                      IF variant = "server" /\ Len(Trim(req[r].text)) = 0
                      THEN Notice(req[r].calls)
                      ELSE req[r].text)
    /\ [][\A r \in Requests :
            (req[r].toolChoice = "required" /\ req[r].pc = "model") =>
                \/ req'[r] = req[r]
                \/ req'[r].pc = "tools" /\ req'[r].calls > 0
                \/ req'[r].pc = "done" /\ req'[r].status = 500]_vars

\* a forced exchange ended at the ceiling and was answered with the notice
C29_Witness ==
    \E r \in Requests :
        /\ variant = "server"
        /\ ForcedAnswered(r)
        /\ req[r].step = MaxSteps
        /\ req[r].resp.text = Notice(req[r].calls)


-----------------------------------------------------------------------------
(* The chat client's history *)

IsPrefix(a, b) == Len(a) <= Len(b) /\ SubSeq(b, 1, Len(a)) = a

\* the messages an ok reply carries for the history: its `messages` array,
\* or, without one, its text as one assistant message
Carried(data) ==
    IF data.hasArray THEN data.messages
    ELSE IF data.text # <<>> THEN <<Msg("assistant", data.text)>>
    ELSE <<>>

====
